---- MODULE Spec2Model ----
(***************************************************************************)
(* crashfeishu: a supervisord event listener.  It announces READY on its   *)
(* standard output, reads one event frame (a header line and len payload   *)
(* bytes) from its standard input, decides whether the frame is an         *)
(* unexpected exit of a monitored process, pushes a message to a Feishu    *)
(* webhook if it is, and acknowledges the frame with RESULT 2\nOK.         *)
(*                                                                         *)
(* A string or byte buffer of the program is a sequence of bytes, each     *)
(* byte written as a one-character string.  The byte 0xFF, which occurs    *)
(* in no valid UTF-8 text, is written "0xFF"; every other byte of the      *)
(* model is ASCII.  A HashMap<String, String> is a function whose domain   *)
(* is its set of keys.  An Option is a sequence of length 0 (None) or 1    *)
(* (Some).                                                                 *)
(***************************************************************************)
EXTENDS Naturals, Sequences, FiniteSets, TLC

(***************************************************************************)
(* String literals of the source.                                          *)
(***************************************************************************)
\* lib.rs:107  output.write_all(b"READY\n")
READY ==
    << "R", "E", "A", "D", "Y", "\n" >>
\* lib.rs:122  format!("RESULT {}\n{}", n, data): the text before the length
RESULT_PREFIX ==
    << "R", "E", "S", "U", "L", "T", " " >>
\* lib.rs:113  self.send("OK", output)
OK ==
    << "O", "K" >>
\* lib.rs:117  self.send("FAIL", output)
FAIL ==
    << "F", "A", "I", "L" >>
\* lib.rs:99   headers["len"]
K_len ==
    << "l", "e", "n" >>
\* lib.rs:142  set["eventname"]
K_eventname ==
    << "e", "v", "e", "n", "t", "n", "a", "m", "e" >>
\* lib.rs:142  the event name the loop reacts to
PROCESS_STATE_EXITED ==
    << "P", "R", "O", "C", "E", "S", "S", "_", "S", "T", "A", "T", "E", "_", "E", "X",
       "I", "T", "E", "D" >>
\* lib.rs:149  pset["expected"]
K_expected ==
    << "e", "x", "p", "e", "c", "t", "e", "d" >>
\* lib.rs:154  pset["groupname"]
K_groupname ==
    << "g", "r", "o", "u", "p", "n", "a", "m", "e" >>
\* lib.rs:154  pset["processname"]
K_processname ==
    << "p", "r", "o", "c", "e", "s", "s", "n", "a", "m", "e" >>
\* lib.rs:162  pset["pid"]
K_pid ==
    << "p", "i", "d" >>
\* lib.rs:162  pset["from_state"]
K_from_state ==
    << "f", "r", "o", "m", "_", "s", "t", "a", "t", "e" >>
\* lib.rs:161  message text before processname
MSG_Process ==
    << "P", "r", "o", "c", "e", "s", "s", " " >>
\* lib.rs:161  message text before groupname
MSG_in_group ==
    << " ", "i", "n", " ", "g", "r", "o", "u", "p", " " >>
\* lib.rs:161  message text before pid
MSG_exited ==
    << " ", "e", "x", "i", "t", "e", "d", " ", "u", "n", "e", "x", "p", "e", "c", "t",
       "e", "d", "l", "y", " ", "(", "p", "i", "d", " " >>
\* lib.rs:161  message text before from_state
MSG_from_state ==
    << ")", " ", "f", "r", "o", "m", " ", "s", "t", "a", "t", "e", " " >>

(***************************************************************************)
(* Text primitives of the standard library, as the source uses them.       *)
(***************************************************************************)
COLON == ":"
SPACE == " "
NEWLINE == "\n"
INVALID_BYTE == "0xFF"
DIGITS == << "0", "1", "2", "3", "4", "5", "6", "7", "8", "9" >>

\* char::is_whitespace, on the bytes of the model (str::trim trims these).
IsWhitespace(c) == c \in { " ", "\n", "\t", "\r" }

\* Index of the first occurrence of byte c in s, 0 when there is none.
IndexOf(s, c) ==
    IF \E i \in 1..Len(s) : s[i] = c
    THEN CHOOSE i \in 1..Len(s) : s[i] = c /\ \A j \in 1..(i - 1) : s[j] # c
    ELSE 0

\* str::contains(':')
Contains(s, c) == IndexOf(s, c) # 0

\* str::trim: leading and trailing whitespace removed.
Trim(s) ==
    IF \A i \in 1..Len(s) : IsWhitespace(s[i]) THEN << >>
    ELSE LET lo == CHOOSE i \in 1..Len(s) :
                       ~IsWhitespace(s[i]) /\ \A j \in 1..(i - 1) : IsWhitespace(s[j])
             hi == CHOOSE i \in 1..Len(s) :
                       ~IsWhitespace(s[i]) /\ \A j \in (i + 1)..Len(s) : IsWhitespace(s[j])
         IN  SubSeq(s, lo, hi)

\* str::split(' '): the segments between single spaces, empty ones included
\* (the text with no space is one segment, also when it is empty).
RECURSIVE Split(_, _)
Split(s, sep) ==
    LET i == IndexOf(s, sep)
    IN  IF i = 0 THEN << s >>
        ELSE << SubSeq(s, 1, i - 1) >> \o Split(SubSeq(s, i + 1, Len(s)), sep)

\* str::split_once(':'): None (<< >>), or Some(<<before, after>>) around the
\* first colon.
SplitOnce(pair, sep) ==
    LET i == IndexOf(pair, sep)
    IN  IF i = 0 THEN << >>
        ELSE << << SubSeq(pair, 1, i - 1), SubSeq(pair, i + 1, Len(pair)) >> >>

\* String::from_utf8 succeeds: no byte of the buffer is invalid.
IsUtf8(bytes) == \A i \in 1..Len(bytes) : bytes[i] # INVALID_BYTE

\* Value of a decimal digit byte.
DigitValue(c) == (CHOOSE i \in 1..Len(DIGITS) : DIGITS[i] = c) - 1

IsDigit(c) == \E i \in 1..Len(DIGITS) : DIGITS[i] = c

RECURSIVE DigitsValue(_)
DigitsValue(s) ==
    IF s = << >> THEN 0
    ELSE DigitsValue(SubSeq(s, 1, Len(s) - 1)) * Len(DIGITS) + DigitValue(s[Len(s)])

\* str::parse::<usize>(): None (<< >>) or Some(<<n>>).  An optional leading
\* '+', then at least one digit and nothing else.  (Numerals of the model are
\* short; the overflow error of a numeral above usize::MAX is not reached.)
ParseUsize(s) ==
    LET body == IF s # << >> /\ s[1] = "+" THEN Tail(s) ELSE s
    IN  IF body # << >> /\ \A i \in 1..Len(body) : IsDigit(body[i])
        THEN << DigitsValue(body) >>
        ELSE << >>

\* format!("{}", n) of an unsigned integer: its decimal digits.
RECURSIVE ToDecimal(_)
ToDecimal(n) ==
    IF n < Len(DIGITS) THEN << DIGITS[n + 1] >>
    ELSE ToDecimal(n \div Len(DIGITS)) \o << DIGITS[(n % Len(DIGITS)) + 1] >>

(***************************************************************************)
(* get_webhook_url: the --webhook argument, or else CRASHFEISHU_WEBHOOK    *)
(* when it is set and not empty.  env_webhook is env::var(..).ok().        *)
(***************************************************************************)
\* Variant checked against the properties: an empty CRASHFEISHU_WEBHOOK is taken as a URL.
get_webhook_url_no_filter(arg_webhook, env_webhook) ==
    IF arg_webhook # << >> THEN arg_webhook ELSE env_webhook

get_webhook_url(arg_webhook, env_webhook) ==
    IF arg_webhook # << >> THEN arg_webhook
    ELSE IF env_webhook # << >> /\ env_webhook[1] # << >> THEN env_webhook
    ELSE << >>

(***************************************************************************)
(* parse_token_set.  The result is [panic |-> TRUE] when a token has no    *)
(* colon (the unwrap of split_once panics), else the map collected from    *)
(* the tokens in order: a later token overwrites an earlier one's key.     *)
(***************************************************************************)
EmptyMap == [k \in {} |-> << >>]

Tokens(line) == SelectSeq(Split(Trim(line), SPACE), LAMBDA s : s # << >>)

\* HashMap::from_iter over (k, v) pairs: the last pair of a key wins.
Collect(pairs) ==
    LET keys == { pairs[i][1] : i \in 1..Len(pairs) }
        last(k) == CHOOSE i \in 1..Len(pairs) :
                       /\ pairs[i][1] = k
                       /\ \A j \in (i + 1)..Len(pairs) : pairs[j][1] # k
    IN  [k \in keys |-> pairs[last(k)][2]]

\* Variant checked against the properties: the first token of a key is kept.
parse_token_set_first_wins(line) ==
    LET toks == Tokens(line)
    IN  IF \E i \in 1..Len(toks) : SplitOnce(toks[i], COLON) = << >>
        THEN [panic |-> TRUE, map |-> EmptyMap]
        ELSE LET pairs == [i \in 1..Len(toks) |-> SplitOnce(toks[i], COLON)[1]]
                 keys == { pairs[i][1] : i \in 1..Len(pairs) }
                 first(k) == CHOOSE i \in 1..Len(pairs) :
                                /\ pairs[i][1] = k
                                /\ \A j \in 1..(i - 1) : pairs[j][1] # k
             IN  [panic |-> FALSE, map |-> [k \in keys |-> pairs[first(k)][2]]]

\* Variant checked against the properties: a token is split at its last colon.
parse_token_set_split_last_colon(line) ==
    LET toks == Tokens(line)
        last_colon(tok) == CHOOSE i \in 1..Len(tok) :
                              /\ tok[i] = COLON
                              /\ \A j \in (i + 1)..Len(tok) : tok[j] # COLON
        split(tok) == << SubSeq(tok, 1, last_colon(tok) - 1),
                         SubSeq(tok, last_colon(tok) + 1, Len(tok)) >>
    IN  IF \E i \in 1..Len(toks) : ~Contains(toks[i], COLON)
        THEN [panic |-> TRUE, map |-> EmptyMap]
        ELSE [panic |-> FALSE,
              map |-> Collect([i \in 1..Len(toks) |-> split(toks[i])])]

parse_token_set(line) ==
    LET toks == Tokens(line)
    IN  IF \E i \in 1..Len(toks) : SplitOnce(toks[i], COLON) = << >>
        THEN [panic |-> TRUE, map |-> EmptyMap]
        ELSE [panic |-> FALSE,
              map |-> Collect([i \in 1..Len(toks) |-> SplitOnce(toks[i], COLON)[1]])]

(***************************************************************************)
(* should_monitor: an empty program list monitors everything; else some    *)
(* entry must match, a bare entry N standing for N:N.                      *)
(***************************************************************************)
\* Variant checked against the properties: no special case for the empty list.
should_monitor_empty_none(full_name, program) ==
    \E i \in 1..Len(program) :
        IF Contains(program[i], COLON)
        THEN program[i] = full_name
        ELSE program[i] \o << COLON >> \o program[i] = full_name

\* Variant checked against the properties: a bare entry N matches every
\* name that ends in :N, whatever its group.
should_monitor_bare_any_group(full_name, program) ==
    IF program = << >> THEN TRUE
    ELSE \E i \in 1..Len(program) :
            IF Contains(program[i], COLON)
            THEN program[i] = full_name
            ELSE /\ Len(full_name) > Len(program[i])
                 /\ SubSeq(full_name, Len(full_name) - Len(program[i]), Len(full_name))
                       = << COLON >> \o program[i]

should_monitor(full_name, program) ==
    IF program = << >> THEN TRUE
    ELSE \E i \in 1..Len(program) :
            IF Contains(program[i], COLON)
            THEN program[i] = full_name
            ELSE program[i] \o << COLON >> \o program[i] = full_name

(***************************************************************************)
(* EventListenerProtocol::send: the bytes of one acknowledgement.          *)
(***************************************************************************)
\* Variant checked against the properties: a newline is written after the body.
send_trailing_newline(data) ==
    RESULT_PREFIX \o ToDecimal(Len(data)) \o << NEWLINE >> \o data \o << NEWLINE >>

send(data) ==
    RESULT_PREFIX \o ToDecimal(Len(data)) \o << NEWLINE >> \o data

\* EventListenerProtocol::ok and ::fail: what each writes.
ok == send(OK)

fail == send(FAIL)

(***************************************************************************)
(* What the supervisor may send: a catalog of input chunks.  Standard      *)
(* input is the concatenation of the chunks sent, so a chunk that does not *)
(* end where its header says leaves the stream out of step, as on the      *)
(* wire.  wf marks a well-formed frame (a newline-terminated header whose  *)
(* len is the length of the payload); headers is then its header map.      *)
(***************************************************************************)
\* FrameExitGP: unexpected exit of g:p, all fields present. Header line 'len:63 eventname:PROCESS_STATE_EXITED\n'
FrameExitGP_line ==
    << "l", "e", "n", ":", "6", "3", " ", "e", "v", "e", "n", "t", "n", "a", "m", "e",
       ":", "P", "R", "O", "C", "E", "S", "S", "_", "S", "T", "A", "T", "E", "_", "E",
       "X", "I", "T", "E", "D", "\n" >>
\* payload 'groupname:g processname:p pid:123 expected:0 from_state:RUNNING' (63 bytes)
FrameExitGP_body ==
    << "g", "r", "o", "u", "p", "n", "a", "m", "e", ":", "g", " ", "p", "r", "o", "c",
       "e", "s", "s", "n", "a", "m", "e", ":", "p", " ", "p", "i", "d", ":", "1", "2",
       "3", " ", "e", "x", "p", "e", "c", "t", "e", "d", ":", "0", " ", "f", "r", "o",
       "m", "_", "s", "t", "a", "t", "e", ":", "R", "U", "N", "N", "I", "N", "G" >>
FrameExitGP ==
    [line |-> FrameExitGP_line, body |-> FrameExitGP_body, wf |-> TRUE,
     headers |-> (<< "l", "e", "n" >> :> << "6", "3" >>) @@ (<< "e", "v", "e", "n", "t", "n", "a", "m", "e" >> :> << "P", "R", "O", "C", "E", "S", "S", "_", "S", "T", "A", "T", "E", "_", "E", "X", "I", "T", "E", "D" >>)]
\* FrameScenario: the header and the 94 bytes of the specification's end-to-end scenario. Header line 'len:63 eventname:x\n'
FrameScenario_line ==
    << "l", "e", "n", ":", "6", "3", " ", "e", "v", "e", "n", "t", "n", "a", "m", "e",
       ":", "x", "\n" >>
\* payload 'eventname:PROCESS_STATE_EXITED groupname:g processname:p pid:123 expected:0 from_state:RUNNING' (94 bytes)
FrameScenario_body ==
    << "e", "v", "e", "n", "t", "n", "a", "m", "e", ":", "P", "R", "O", "C", "E", "S",
       "S", "_", "S", "T", "A", "T", "E", "_", "E", "X", "I", "T", "E", "D", " ", "g",
       "r", "o", "u", "p", "n", "a", "m", "e", ":", "g", " ", "p", "r", "o", "c", "e",
       "s", "s", "n", "a", "m", "e", ":", "p", " ", "p", "i", "d", ":", "1", "2", "3",
       " ", "e", "x", "p", "e", "c", "t", "e", "d", ":", "0", " ", "f", "r", "o", "m",
       "_", "s", "t", "a", "t", "e", ":", "R", "U", "N", "N", "I", "N", "G" >>
FrameScenario ==
    [line |-> FrameScenario_line, body |-> FrameScenario_body, wf |-> FALSE,
     headers |-> [k \in {} |-> << >>]]
\* FrameRunning: not an exit event; the payload is binary: a newline, a space, an invalid byte, no colon. Header line 'len:5 eventname:PROCESS_STATE_RUNNING\n'
FrameRunning_line ==
    << "l", "e", "n", ":", "5", " ", "e", "v", "e", "n", "t", "n", "a", "m", "e", ":",
       "P", "R", "O", "C", "E", "S", "S", "_", "S", "T", "A", "T", "E", "_", "R", "U",
       "N", "N", "I", "N", "G", "\n" >>
\* payload 'a\n \xFFb' (5 bytes)
FrameRunning_body ==
    << "a", "\n", " ", "0xFF", "b" >>
FrameRunning ==
    [line |-> FrameRunning_line, body |-> FrameRunning_body, wf |-> TRUE,
     headers |-> (<< "l", "e", "n" >> :> << "5" >>) @@ (<< "e", "v", "e", "n", "t", "n", "a", "m", "e" >> :> << "P", "R", "O", "C", "E", "S", "S", "_", "S", "T", "A", "T", "E", "_", "R", "U", "N", "N", "I", "N", "G" >>)]
\* FrameTick: not an exit event; empty payload; a run of spaces and a trailing space in the header. Header line 'len:0  eventname:TICK_5 \n'
FrameTick_line ==
    << "l", "e", "n", ":", "0", " ", " ", "e", "v", "e", "n", "t", "n", "a", "m", "e",
       ":", "T", "I", "C", "K", "_", "5", " ", "\n" >>
\* payload '' (0 bytes)
FrameTick_body == << >>
FrameTick ==
    [line |-> FrameTick_line, body |-> FrameTick_body, wf |-> TRUE,
     headers |-> (<< "l", "e", "n" >> :> << "0" >>) @@ (<< "e", "v", "e", "n", "t", "n", "a", "m", "e" >> :> << "T", "I", "C", "K", "_", "5" >>)]
\* FrameExpected: expected exit of g:p. Header line 'len:61 eventname:PROCESS_STATE_EXITED\n'
FrameExpected_line ==
    << "l", "e", "n", ":", "6", "1", " ", "e", "v", "e", "n", "t", "n", "a", "m", "e",
       ":", "P", "R", "O", "C", "E", "S", "S", "_", "S", "T", "A", "T", "E", "_", "E",
       "X", "I", "T", "E", "D", "\n" >>
\* payload 'processname:p groupname:g from_state:RUNNING expected:1 pid:9' (61 bytes)
FrameExpected_body ==
    << "p", "r", "o", "c", "e", "s", "s", "n", "a", "m", "e", ":", "p", " ", "g", "r",
       "o", "u", "p", "n", "a", "m", "e", ":", "g", " ", "f", "r", "o", "m", "_", "s",
       "t", "a", "t", "e", ":", "R", "U", "N", "N", "I", "N", "G", " ", "e", "x", "p",
       "e", "c", "t", "e", "d", ":", "1", " ", "p", "i", "d", ":", "9" >>
FrameExpected ==
    [line |-> FrameExpected_line, body |-> FrameExpected_body, wf |-> TRUE,
     headers |-> (<< "l", "e", "n" >> :> << "6", "1" >>) @@ (<< "e", "v", "e", "n", "t", "n", "a", "m", "e" >> :> << "P", "R", "O", "C", "E", "S", "S", "_", "S", "T", "A", "T", "E", "_", "E", "X", "I", "T", "E", "D" >>)]
\* FrameExitPP: unexpected exit of p:p, fields in supervisor's order. Header line 'len:61 eventname:PROCESS_STATE_EXITED\n'
FrameExitPP_line ==
    << "l", "e", "n", ":", "6", "1", " ", "e", "v", "e", "n", "t", "n", "a", "m", "e",
       ":", "P", "R", "O", "C", "E", "S", "S", "_", "S", "T", "A", "T", "E", "_", "E",
       "X", "I", "T", "E", "D", "\n" >>
\* payload 'processname:p groupname:p from_state:BACKOFF expected:0 pid:7' (61 bytes)
FrameExitPP_body ==
    << "p", "r", "o", "c", "e", "s", "s", "n", "a", "m", "e", ":", "p", " ", "g", "r",
       "o", "u", "p", "n", "a", "m", "e", ":", "p", " ", "f", "r", "o", "m", "_", "s",
       "t", "a", "t", "e", ":", "B", "A", "C", "K", "O", "F", "F", " ", "e", "x", "p",
       "e", "c", "t", "e", "d", ":", "0", " ", "p", "i", "d", ":", "7" >>
FrameExitPP ==
    [line |-> FrameExitPP_line, body |-> FrameExitPP_body, wf |-> TRUE,
     headers |-> (<< "l", "e", "n" >> :> << "6", "1" >>) @@ (<< "e", "v", "e", "n", "t", "n", "a", "m", "e" >> :> << "P", "R", "O", "C", "E", "S", "S", "_", "S", "T", "A", "T", "E", "_", "E", "X", "I", "T", "E", "D" >>)]
\* FrameNoPid: unexpected exit of g:p without pid and from_state. Header line 'len:36 eventname:PROCESS_STATE_EXITED\n'
FrameNoPid_line ==
    << "l", "e", "n", ":", "3", "6", " ", "e", "v", "e", "n", "t", "n", "a", "m", "e",
       ":", "P", "R", "O", "C", "E", "S", "S", "_", "S", "T", "A", "T", "E", "_", "E",
       "X", "I", "T", "E", "D", "\n" >>
\* payload 'groupname:g processname:p expected:0' (36 bytes)
FrameNoPid_body ==
    << "g", "r", "o", "u", "p", "n", "a", "m", "e", ":", "g", " ", "p", "r", "o", "c",
       "e", "s", "s", "n", "a", "m", "e", ":", "p", " ", "e", "x", "p", "e", "c", "t",
       "e", "d", ":", "0" >>
FrameNoPid ==
    [line |-> FrameNoPid_line, body |-> FrameNoPid_body, wf |-> TRUE,
     headers |-> (<< "l", "e", "n" >> :> << "3", "6" >>) @@ (<< "e", "v", "e", "n", "t", "n", "a", "m", "e" >> :> << "P", "R", "O", "C", "E", "S", "S", "_", "S", "T", "A", "T", "E", "_", "E", "X", "I", "T", "E", "D" >>)]
\* FrameOnlyExpected: expected exit with no other field. Header line 'len:10 eventname:PROCESS_STATE_EXITED\n'
FrameOnlyExpected_line ==
    << "l", "e", "n", ":", "1", "0", " ", "e", "v", "e", "n", "t", "n", "a", "m", "e",
       ":", "P", "R", "O", "C", "E", "S", "S", "_", "S", "T", "A", "T", "E", "_", "E",
       "X", "I", "T", "E", "D", "\n" >>
\* payload 'expected:1' (10 bytes)
FrameOnlyExpected_body ==
    << "e", "x", "p", "e", "c", "t", "e", "d", ":", "1" >>
FrameOnlyExpected ==
    [line |-> FrameOnlyExpected_line, body |-> FrameOnlyExpected_body, wf |-> TRUE,
     headers |-> (<< "l", "e", "n" >> :> << "1", "0" >>) @@ (<< "e", "v", "e", "n", "t", "n", "a", "m", "e" >> :> << "P", "R", "O", "C", "E", "S", "S", "_", "S", "T", "A", "T", "E", "_", "E", "X", "I", "T", "E", "D" >>)]
\* FrameBadUtf8: exit event whose payload is not valid UTF-8. Header line 'len:11 eventname:PROCESS_STATE_EXITED\n'
FrameBadUtf8_line ==
    << "l", "e", "n", ":", "1", "1", " ", "e", "v", "e", "n", "t", "n", "a", "m", "e",
       ":", "P", "R", "O", "C", "E", "S", "S", "_", "S", "T", "A", "T", "E", "_", "E",
       "X", "I", "T", "E", "D", "\n" >>
\* payload 'expected:0\xFF' (11 bytes)
FrameBadUtf8_body ==
    << "e", "x", "p", "e", "c", "t", "e", "d", ":", "0", "0xFF" >>
FrameBadUtf8 ==
    [line |-> FrameBadUtf8_line, body |-> FrameBadUtf8_body, wf |-> TRUE,
     headers |-> (<< "l", "e", "n" >> :> << "1", "1" >>) @@ (<< "e", "v", "e", "n", "t", "n", "a", "m", "e" >> :> << "P", "R", "O", "C", "E", "S", "S", "_", "S", "T", "A", "T", "E", "_", "E", "X", "I", "T", "E", "D" >>)]
\* FrameNoColon: exit event whose payload has a token without a colon. Header line 'len:15 eventname:PROCESS_STATE_EXITED\n'
FrameNoColon_line ==
    << "l", "e", "n", ":", "1", "5", " ", "e", "v", "e", "n", "t", "n", "a", "m", "e",
       ":", "P", "R", "O", "C", "E", "S", "S", "_", "S", "T", "A", "T", "E", "_", "E",
       "X", "I", "T", "E", "D", "\n" >>
\* payload 'expected:0 junk' (15 bytes)
FrameNoColon_body ==
    << "e", "x", "p", "e", "c", "t", "e", "d", ":", "0", " ", "j", "u", "n", "k" >>
FrameNoColon ==
    [line |-> FrameNoColon_line, body |-> FrameNoColon_body, wf |-> TRUE,
     headers |-> (<< "l", "e", "n" >> :> << "1", "5" >>) @@ (<< "e", "v", "e", "n", "t", "n", "a", "m", "e" >> :> << "P", "R", "O", "C", "E", "S", "S", "_", "S", "T", "A", "T", "E", "_", "E", "X", "I", "T", "E", "D" >>)]
\* FrameExpectedNaN: exit event whose expected is not a number. Header line 'len:62 eventname:PROCESS_STATE_EXITED\n'
FrameExpectedNaN_line ==
    << "l", "e", "n", ":", "6", "2", " ", "e", "v", "e", "n", "t", "n", "a", "m", "e",
       ":", "P", "R", "O", "C", "E", "S", "S", "_", "S", "T", "A", "T", "E", "_", "E",
       "X", "I", "T", "E", "D", "\n" >>
\* payload 'expected:no groupname:g processname:p pid:1 from_state:RUNNING' (62 bytes)
FrameExpectedNaN_body ==
    << "e", "x", "p", "e", "c", "t", "e", "d", ":", "n", "o", " ", "g", "r", "o", "u",
       "p", "n", "a", "m", "e", ":", "g", " ", "p", "r", "o", "c", "e", "s", "s", "n",
       "a", "m", "e", ":", "p", " ", "p", "i", "d", ":", "1", " ", "f", "r", "o", "m",
       "_", "s", "t", "a", "t", "e", ":", "R", "U", "N", "N", "I", "N", "G" >>
FrameExpectedNaN ==
    [line |-> FrameExpectedNaN_line, body |-> FrameExpectedNaN_body, wf |-> TRUE,
     headers |-> (<< "l", "e", "n" >> :> << "6", "2" >>) @@ (<< "e", "v", "e", "n", "t", "n", "a", "m", "e" >> :> << "P", "R", "O", "C", "E", "S", "S", "_", "S", "T", "A", "T", "E", "_", "E", "X", "I", "T", "E", "D" >>)]
\* FrameNoExpected: exit event without expected. Header line 'len:25 eventname:PROCESS_STATE_EXITED\n'
FrameNoExpected_line ==
    << "l", "e", "n", ":", "2", "5", " ", "e", "v", "e", "n", "t", "n", "a", "m", "e",
       ":", "P", "R", "O", "C", "E", "S", "S", "_", "S", "T", "A", "T", "E", "_", "E",
       "X", "I", "T", "E", "D", "\n" >>
\* payload 'groupname:g processname:p' (25 bytes)
FrameNoExpected_body ==
    << "g", "r", "o", "u", "p", "n", "a", "m", "e", ":", "g", " ", "p", "r", "o", "c",
       "e", "s", "s", "n", "a", "m", "e", ":", "p" >>
FrameNoExpected ==
    [line |-> FrameNoExpected_line, body |-> FrameNoExpected_body, wf |-> TRUE,
     headers |-> (<< "l", "e", "n" >> :> << "2", "5" >>) @@ (<< "e", "v", "e", "n", "t", "n", "a", "m", "e" >> :> << "P", "R", "O", "C", "E", "S", "S", "_", "S", "T", "A", "T", "E", "_", "E", "X", "I", "T", "E", "D" >>)]
\* FrameNoGroup: unexpected exit without groupname. Header line 'len:49 eventname:PROCESS_STATE_EXITED\n'
FrameNoGroup_line ==
    << "l", "e", "n", ":", "4", "9", " ", "e", "v", "e", "n", "t", "n", "a", "m", "e",
       ":", "P", "R", "O", "C", "E", "S", "S", "_", "S", "T", "A", "T", "E", "_", "E",
       "X", "I", "T", "E", "D", "\n" >>
\* payload 'expected:0 processname:p pid:1 from_state:RUNNING' (49 bytes)
FrameNoGroup_body ==
    << "e", "x", "p", "e", "c", "t", "e", "d", ":", "0", " ", "p", "r", "o", "c", "e",
       "s", "s", "n", "a", "m", "e", ":", "p", " ", "p", "i", "d", ":", "1", " ", "f",
       "r", "o", "m", "_", "s", "t", "a", "t", "e", ":", "R", "U", "N", "N", "I", "N",
       "G" >>
FrameNoGroup ==
    [line |-> FrameNoGroup_line, body |-> FrameNoGroup_body, wf |-> TRUE,
     headers |-> (<< "l", "e", "n" >> :> << "4", "9" >>) @@ (<< "e", "v", "e", "n", "t", "n", "a", "m", "e" >> :> << "P", "R", "O", "C", "E", "S", "S", "_", "S", "T", "A", "T", "E", "_", "E", "X", "I", "T", "E", "D" >>)]
\* FrameNoEventname: a frame whose header has no eventname. Header line 'len:0\n'
FrameNoEventname_line ==
    << "l", "e", "n", ":", "0", "\n" >>
\* payload '' (0 bytes)
FrameNoEventname_body == << >>
FrameNoEventname ==
    [line |-> FrameNoEventname_line, body |-> FrameNoEventname_body, wf |-> TRUE,
     headers |-> (<< "l", "e", "n" >> :> << "0" >>)]
\* HeaderNoColon: header line with a token without a colon. Header line 'len:0 junk\n'
HeaderNoColon_line ==
    << "l", "e", "n", ":", "0", " ", "j", "u", "n", "k", "\n" >>
\* payload '' (0 bytes)
HeaderNoColon_body == << >>
HeaderNoColon ==
    [line |-> HeaderNoColon_line, body |-> HeaderNoColon_body, wf |-> FALSE,
     headers |-> [k \in {} |-> << >>]]
\* HeaderNoLen: header line without len. Header line 'eventname:PROCESS_STATE_RUNNING\n'
HeaderNoLen_line ==
    << "e", "v", "e", "n", "t", "n", "a", "m", "e", ":", "P", "R", "O", "C", "E", "S",
       "S", "_", "S", "T", "A", "T", "E", "_", "R", "U", "N", "N", "I", "N", "G", "\n" >>
\* payload '' (0 bytes)
HeaderNoLen_body == << >>
HeaderNoLen ==
    [line |-> HeaderNoLen_line, body |-> HeaderNoLen_body, wf |-> FALSE,
     headers |-> [k \in {} |-> << >>]]
\* HeaderLenNaN: header line whose len is not a number. Header line 'len:abc eventname:x\n'
HeaderLenNaN_line ==
    << "l", "e", "n", ":", "a", "b", "c", " ", "e", "v", "e", "n", "t", "n", "a", "m",
       "e", ":", "x", "\n" >>
\* payload '' (0 bytes)
HeaderLenNaN_body == << >>
HeaderLenNaN ==
    [line |-> HeaderLenNaN_line, body |-> HeaderLenNaN_body, wf |-> FALSE,
     headers |-> [k \in {} |-> << >>]]
\* HeaderBadUtf8: header line that is not valid UTF-8. Header line 'len:0 eventname:\xFF\n'
HeaderBadUtf8_line ==
    << "l", "e", "n", ":", "0", " ", "e", "v", "e", "n", "t", "n", "a", "m", "e", ":",
       "0xFF", "\n" >>
\* payload '' (0 bytes)
HeaderBadUtf8_body == << >>
HeaderBadUtf8 ==
    [line |-> HeaderBadUtf8_line, body |-> HeaderBadUtf8_body, wf |-> FALSE,
     headers |-> [k \in {} |-> << >>]]
\* FrameShort: a frame with 3 of its 9 payload bytes. Header line 'len:9 eventname:PROCESS_STATE_RUNNING\n'
FrameShort_line ==
    << "l", "e", "n", ":", "9", " ", "e", "v", "e", "n", "t", "n", "a", "m", "e", ":",
       "P", "R", "O", "C", "E", "S", "S", "_", "S", "T", "A", "T", "E", "_", "R", "U",
       "N", "N", "I", "N", "G", "\n" >>
\* payload 'abc' (3 bytes)
FrameShort_body ==
    << "a", "b", "c" >>
FrameShort ==
    [line |-> FrameShort_line, body |-> FrameShort_body, wf |-> FALSE,
     headers |-> [k \in {} |-> << >>]]
Catalog ==
    << FrameExitGP,
       FrameScenario,
       FrameRunning,
       FrameTick,
       FrameExpected,
       FrameExitPP,
       FrameNoPid,
       FrameOnlyExpected,
       FrameBadUtf8,
       FrameNoColon,
       FrameExpectedNaN,
       FrameNoExpected,
       FrameNoGroup,
       FrameNoEventname,
       HeaderNoColon,
       HeaderNoLen,
       HeaderLenNaN,
       HeaderBadUtf8,
       FrameShort >>

(***************************************************************************)
(* Bounds and the inputs drawn in the initial state.                       *)
(***************************************************************************)
\* The supervisor sends at most this many chunks before it closes the
\* listener's standard input.
MaxFrames == 2

\* Allow-lists (Args::program): none, a qualified entry, a bare entry before
\* a qualified one.
Programs ==
    { << >>,
      << << "g", ":", "p" >> >>,
      << << "p" >>, << "g", ":", "q" >> >> }

WebhookUrl == << "u" >>

\* <<--webhook argument, env::var("CRASHFEISHU_WEBHOOK").ok()>>: the argument
\* given; only the variable set; the variable set but empty; neither.
WebhookConfigs ==
    { << << WebhookUrl >>, << >> >>,
      << << >>, << WebhookUrl >> >>,
      << << >>, << << >> >> >>,
      << << >>, << >> >> }

RECURSIVE Bytes(_)
\* The bytes of the chunks fed, in order.
Bytes(chunks) ==
    IF chunks = << >> THEN << >>
    ELSE Catalog[Head(chunks)].line \o Catalog[Head(chunks)].body \o Bytes(Tail(chunks))

(***************************************************************************)
(* State.                                                                  *)
(***************************************************************************)
VARIABLES
    program,      \* args.program: the allow-list
    arg_webhook,  \* args.webhook
    env_webhook,  \* env::var("CRASHFEISHU_WEBHOOK").ok()
    feed,         \* the chunks the supervisor has sent to standard input
    pos,          \* number of bytes of standard input consumed
    output,       \* standard output: the buffers written and flushed, in order
    notified,     \* the messages handed to push_feishu, in order
    pc,           \* position of run: start, ready, read, dispatch, push, ack, exited
    webhook,      \* run's local webhook
    set,          \* run's local set: the headers wait returned
    payload,      \* run's local payload: the bytes wait returned
    exit_status,  \* << >> while the process runs, else << its exit status >>
    events,       \* history: what the process has done, in order
    call          \* the last library call made directly (unit specification)

vars ==
    << program, arg_webhook, env_webhook, feed, pos, output, notified, pc,
       webhook, set, payload, exit_status, events, call >>

stdin == Bytes(feed)

NoCall == [fn |-> "none"]

Init ==
    /\ program \in Programs
    /\ \E config \in WebhookConfigs :
          /\ arg_webhook = config[1]
          /\ env_webhook = config[2]
    /\ feed = << >>
    /\ pos = 0
    /\ output = << >>
    /\ notified = << >>
    /\ pc = "start"
    /\ webhook = << >>
    /\ set = EmptyMap
    /\ payload = << >>
    /\ exit_status = << >>
    /\ events = << >>
    /\ call = NoCall

(***************************************************************************)
(* How the process ends.  An Err returned by run makes main print it and   *)
(* exit(1); a panic (an unwrap of None or Err, a missing HashMap key)      *)
(* unwinds out of main and the runtime exits with status 101.              *)
(* The cause is kept as the last event of the history.                     *)
(***************************************************************************)
ExitStatus(kind) == IF kind = "error" THEN 1 ELSE 101

Exit(kind, cause) ==
    /\ pc' = "exited"
    /\ exit_status' = << ExitStatus(kind) >>
    /\ events' = Append(events, cause)

(***************************************************************************)
(* run, up to the loop: the webhook is resolved once.                      *)
(***************************************************************************)
RunStart ==
    /\ pc = "start"
    /\ webhook' = get_webhook_url(arg_webhook, env_webhook)
    /\ pc' = "ready"
    /\ UNCHANGED << program, arg_webhook, env_webhook, feed, pos, output,
                    notified, set, payload, exit_status, events, call >>

(***************************************************************************)
(* EventListenerProtocol::ready, called first by wait: READY\n is written  *)
(* and flushed; a failed write or flush is returned by wait and by run    *)
(* (the output then shows nothing of the failed buffer).                   *)
(***************************************************************************)
\* Variant checked against the properties: wait reads without announcing READY.
Ready_not_announced ==
    /\ pc = "ready"
    /\ pc' = "read"
    /\ UNCHANGED << program, arg_webhook, env_webhook, feed, pos, output, notified,
                    webhook, set, payload, exit_status, events, call >>

Ready ==
    /\ pc = "ready"
    /\ \E written \in BOOLEAN :
          IF written
          THEN /\ output' = Append(output, READY)
               /\ events' = Append(events, "READY")
               /\ pc' = "read"
               /\ UNCHANGED exit_status
          ELSE /\ Exit("error", "write_failed")
               /\ UNCHANGED output
    /\ UNCHANGED << program, arg_webhook, env_webhook, feed, pos, notified,
                    webhook, set, payload, call >>

(***************************************************************************)
(* EventListenerProtocol::wait after ready: read_line, parse_token_set,    *)
(* headers["len"].parse().unwrap(), read_exact.  The result is             *)
(*   [kind |-> "frame", headers, payload, pos]   Ok((headers, payload))    *)
(*   [kind |-> "error", cause, pos]              an io::Error is returned  *)
(*   [kind |-> "panic", cause, pos]              the call panics           *)
(* with pos the number of input bytes consumed so far.                     *)
(***************************************************************************)
ReadLine(input, p) ==
    LET rest == SubSeq(input, p + 1, Len(input))
        nl == IndexOf(rest, NEWLINE)
    IN  IF nl = 0 THEN rest ELSE SubSeq(rest, 1, nl)

\* Variant checked against the properties: the payload is read as a line.
wait_payload_by_line(input, p) ==
    LET line == ReadLine(input, p)
        after == p + Len(line)
        headers == parse_token_set(line)
    IN  IF ~IsUtf8(line)
        THEN [kind |-> "error", cause |-> "header_not_utf8", pos |-> after]
        ELSE IF headers.panic
        THEN [kind |-> "panic", cause |-> "header_token_without_colon", pos |-> after]
        ELSE IF K_len \notin DOMAIN headers.map
        THEN [kind |-> "panic", cause |-> "header_without_len", pos |-> after]
        ELSE LET len == ParseUsize(headers.map[K_len])
             IN  IF len = << >>
                 THEN [kind |-> "panic", cause |-> "header_len_not_a_number", pos |-> after]
                 ELSE IF after + len[1] > Len(input)
                 THEN [kind |-> "error", cause |-> "short_read", pos |-> Len(input)]
                 ELSE [kind |-> "frame", headers |-> headers.map,
                       payload |-> ReadLine(input, after),
                       pos |-> after + Len(ReadLine(input, after))]

\* Variant checked against the properties: a header without len is taken as len:0.
wait_len_defaults_to_zero(input, p) ==
    LET line == ReadLine(input, p)
        after == p + Len(line)
        headers == parse_token_set(line)
    IN  IF ~IsUtf8(line)
        THEN [kind |-> "error", cause |-> "header_not_utf8", pos |-> after]
        ELSE IF headers.panic
        THEN [kind |-> "panic", cause |-> "header_token_without_colon", pos |-> after]
        ELSE LET len == IF K_len \in DOMAIN headers.map
                        THEN ParseUsize(headers.map[K_len]) ELSE << 0 >>
             IN  IF len = << >>
                 THEN [kind |-> "panic", cause |-> "header_len_not_a_number", pos |-> after]
                 ELSE IF after + len[1] > Len(input)
                 THEN [kind |-> "error", cause |-> "short_read", pos |-> Len(input)]
                 ELSE [kind |-> "frame", headers |-> headers.map,
                       payload |-> SubSeq(input, after + 1, after + len[1]),
                       pos |-> after + len[1]]

wait(input, p) ==
    LET line == ReadLine(input, p)
        after == p + Len(line)
        headers == parse_token_set(line)
    IN  IF ~IsUtf8(line)
        THEN [kind |-> "error", cause |-> "header_not_utf8", pos |-> after]
        ELSE IF headers.panic
        THEN [kind |-> "panic", cause |-> "header_token_without_colon", pos |-> after]
        ELSE IF K_len \notin DOMAIN headers.map
        THEN [kind |-> "panic", cause |-> "header_without_len", pos |-> after]
        ELSE LET len == ParseUsize(headers.map[K_len])
             IN  IF len = << >>
                 THEN [kind |-> "panic", cause |-> "header_len_not_a_number", pos |-> after]
                 ELSE IF after + len[1] > Len(input)
                 THEN [kind |-> "error", cause |-> "short_read", pos |-> Len(input)]
                 ELSE [kind |-> "frame", headers |-> headers.map,
                       payload |-> SubSeq(input, after + 1, after + len[1]),
                       pos |-> after + len[1]]

\* What reaches standard input while wait blocks in read_line: the
\* supervisor, which sends one event to a listener that said READY, sends
\* one chunk (<< i >>), or the stream ends there (<< >>).
Arrivals ==
    { << >> } \cup
    (IF Len(feed) < MaxFrames THEN { << i >> : i \in 1..Len(Catalog) } ELSE {})

ReadFrame ==
    /\ pc = "read"
    /\ \E arrival \in Arrivals :
       LET r == wait(Bytes(feed \o arrival), pos)
       IN  /\ feed' = feed \o arrival
           /\ pos' = r.pos
           /\ IF r.kind = "frame"
              THEN /\ set' = r.headers
                   /\ payload' = r.payload
                   /\ events' = Append(events, "FRAME")
                   /\ pc' = "dispatch"
                   /\ UNCHANGED exit_status
              ELSE /\ Exit(r.kind, r.cause)
                   /\ UNCHANGED << set, payload >>
    /\ UNCHANGED << program, arg_webhook, env_webhook, output, notified,
                    webhook, call >>

(***************************************************************************)
(* The body of run's loop after wait, up to the push or the                *)
(* acknowledgement.  The result is                                         *)
(*   [kind |-> "ok"]             listener.ok is called next, nothing pushed *)
(*   [kind |-> "message", msg]   the event passed the filters               *)
(*   [kind |-> "error", cause]   run returns an Err (the ? operator)        *)
(*   [kind |-> "panic", cause]   a key is missing or a token has no colon   *)
(***************************************************************************)
\* Variant checked against the properties: the name is built process first.
format_full_name_process_first(pset) ==
    pset[K_processname] \o << COLON >> \o pset[K_groupname]

format_full_name(pset) == pset[K_groupname] \o << COLON >> \o pset[K_processname]

\* Variant checked against the properties: processname and groupname change places.
format_msg_names_swapped(pset) ==
    MSG_Process \o pset[K_groupname] \o MSG_in_group \o pset[K_processname]
        \o MSG_exited \o pset[K_pid] \o MSG_from_state \o pset[K_from_state]

format_msg(pset) ==
    MSG_Process \o pset[K_processname] \o MSG_in_group \o pset[K_groupname]
        \o MSG_exited \o pset[K_pid] \o MSG_from_state \o pset[K_from_state]

\* Variant checked against the properties: the test of expected is inverted.
expected_is_not_one(pset) == ParseUsize(pset[K_expected])[1] # 1

\* pset["expected"].parse::<usize>()? == 1, the parse having succeeded.
expected_is_one(pset) == ParseUsize(pset[K_expected])[1] = 1

\* Variant checked against the properties: the five keys are required as soon
\* as the payload is decoded.
classify_payload_eager(bytes, prog) ==
    IF ~IsUtf8(bytes) THEN [kind |-> "error", cause |-> "payload_not_utf8"]
    ELSE LET parsed == parse_token_set(bytes)
             pset == parsed.map
         IN  IF parsed.panic
             THEN [kind |-> "panic", cause |-> "payload_token_without_colon"]
             ELSE IF K_expected \notin DOMAIN pset
             THEN [kind |-> "panic", cause |-> "payload_without_expected"]
             ELSE IF ~({K_groupname, K_processname} \subseteq DOMAIN pset)
             THEN [kind |-> "panic", cause |-> "payload_without_name"]
             ELSE IF ~({K_pid, K_from_state} \subseteq DOMAIN pset)
             THEN [kind |-> "panic", cause |-> "payload_without_pid_or_from_state"]
             ELSE IF ParseUsize(pset[K_expected]) = << >>
             THEN [kind |-> "error", cause |-> "expected_not_a_number"]
             ELSE IF expected_is_one(pset) THEN [kind |-> "ok"]
             ELSE IF ~should_monitor(format_full_name(pset), prog) THEN [kind |-> "ok"]
             ELSE [kind |-> "message", msg |-> format_msg(pset)]

classify_payload(bytes, prog) ==
    IF ~IsUtf8(bytes) THEN [kind |-> "error", cause |-> "payload_not_utf8"]
    ELSE LET parsed == parse_token_set(bytes)
             pset == parsed.map
         IN  IF parsed.panic
             THEN [kind |-> "panic", cause |-> "payload_token_without_colon"]
             ELSE IF K_expected \notin DOMAIN pset
             THEN [kind |-> "panic", cause |-> "payload_without_expected"]
             ELSE IF ParseUsize(pset[K_expected]) = << >>
             THEN [kind |-> "error", cause |-> "expected_not_a_number"]
             ELSE IF expected_is_one(pset) THEN [kind |-> "ok"]
             ELSE IF ~({K_groupname, K_processname} \subseteq DOMAIN pset)
             THEN [kind |-> "panic", cause |-> "payload_without_name"]
             ELSE IF ~should_monitor(format_full_name(pset), prog) THEN [kind |-> "ok"]
             ELSE IF ~({K_pid, K_from_state} \subseteq DOMAIN pset)
             THEN [kind |-> "panic", cause |-> "payload_without_pid_or_from_state"]
             ELSE [kind |-> "message", msg |-> format_msg(pset)]

\* Variant checked against the properties: every event is treated as an exit event.
classify_without_eventname_check(headers, bytes, prog) ==
    classify_payload(bytes, prog)

\* Variant checked against the properties: a payload that cannot be decoded
\* is skipped and acknowledged.
classify_decode_failure_skipped(headers, bytes, prog) ==
    IF K_eventname \notin DOMAIN headers
    THEN [kind |-> "panic", cause |-> "header_without_eventname"]
    ELSE IF headers[K_eventname] # PROCESS_STATE_EXITED THEN [kind |-> "ok"]
    ELSE IF classify_payload(bytes, prog).kind \in { "error", "panic" } THEN [kind |-> "ok"]
    ELSE classify_payload(bytes, prog)

classify(headers, bytes, prog) ==
    IF K_eventname \notin DOMAIN headers
    THEN [kind |-> "panic", cause |-> "header_without_eventname"]
    ELSE IF headers[K_eventname] # PROCESS_STATE_EXITED THEN [kind |-> "ok"]
    ELSE classify_payload(bytes, prog)

Dispatch ==
    /\ pc = "dispatch"
    /\ LET c == classify(set, payload, program)
       IN  IF c.kind = "ok"
           THEN /\ pc' = "ack"
                /\ UNCHANGED << notified, exit_status, events >>
           ELSE IF c.kind = "message"
           THEN IF webhook # << >>
                THEN /\ notified' = Append(notified, c.msg)
                     /\ events' = Append(events, "NOTIFY")
                     /\ pc' = "push"
                     /\ UNCHANGED exit_status
                ELSE /\ events' = Append(events, "WARN")
                     /\ pc' = "ack"
                     /\ UNCHANGED << notified, exit_status >>
           ELSE /\ Exit(c.kind, c.cause)
                /\ UNCHANGED notified
    /\ UNCHANGED << program, arg_webhook, env_webhook, feed, pos, output,
                    webhook, set, payload, call >>

(***************************************************************************)
(* push_feishu returns: Ok(()) or an Err, which run logs and drops.        *)
(***************************************************************************)
\* Variant checked against the properties: the error of push_feishu is returned with ?.
PushReturn_error_returned ==
    /\ pc = "push"
    /\ \E result \in { "PUSH_OK", "PUSH_ERR" } :
          IF result = "PUSH_OK"
          THEN /\ events' = Append(events, result)
               /\ pc' = "ack"
               /\ UNCHANGED exit_status
          ELSE Exit("error", "push_failed")
    /\ UNCHANGED << program, arg_webhook, env_webhook, feed, pos, output,
                    notified, webhook, set, payload, call >>

PushReturn ==
    /\ pc = "push"
    /\ \E result \in { "PUSH_OK", "PUSH_ERR" } :
          events' = Append(events, result)
    /\ pc' = "ack"
    /\ UNCHANGED << program, arg_webhook, env_webhook, feed, pos, output,
                    notified, webhook, set, payload, exit_status, call >>

\* Variant checked against the properties: a cycle whose notify call failed
\* is acknowledged with fail.
Ack_fail_after_push_error ==
    /\ pc = "ack"
    /\ \E written \in BOOLEAN :
          IF written
          THEN /\ output' = Append(output,
                                   IF events[Len(events)] = "PUSH_ERR" THEN fail ELSE ok)
               /\ events' = Append(events, "RESULT")
               /\ pc' = "ready"
               /\ UNCHANGED exit_status
          ELSE /\ Exit("error", "write_failed")
               /\ UNCHANGED output
    /\ UNCHANGED << program, arg_webhook, env_webhook, feed, pos, notified,
                    webhook, set, payload, call >>

\* Variant checked against the properties: run returns after the first
\* acknowledgement instead of going back to the top of the loop.
Ack_then_return ==
    /\ pc = "ack"
    /\ \E written \in BOOLEAN :
          IF written
          THEN /\ output' = Append(output, ok)
               /\ events' = Append(events, "RESULT")
               /\ pc' = "exited"
               /\ exit_status' = << 0 >>
          ELSE /\ Exit("error", "write_failed")
               /\ UNCHANGED output
    /\ UNCHANGED << program, arg_webhook, env_webhook, feed, pos, notified,
                    webhook, set, payload, call >>

(***************************************************************************)
(* listener.ok(&mut stdout)?; and back to the top of the loop.             *)
(***************************************************************************)
Ack ==
    /\ pc = "ack"
    /\ \E written \in BOOLEAN :
          IF written
          THEN /\ output' = Append(output, ok)
               /\ events' = Append(events, "RESULT")
               /\ pc' = "ready"
               /\ UNCHANGED exit_status
          ELSE /\ Exit("error", "write_failed")
               /\ UNCHANGED output
    /\ UNCHANGED << program, arg_webhook, env_webhook, feed, pos, notified,
                    webhook, set, payload, call >>

Next ==
    \/ RunStart
    \/ Ready
    \/ ReadFrame
    \/ Dispatch
    \/ PushReturn
    \/ Ack

Spec == Init /\ [][Next]_vars

(***************************************************************************)
(* The loop under its scheduling.  run is a single thread: at every        *)
(* position one statement is next, and it executes.  The blocking calls    *)
(* return: the read when the supervisor has sent the frame or closed the   *)
(* stream, push_feishu when the HTTP call has answered or failed.  Every   *)
(* action of Next leaves the position it starts from, so the fairness of   *)
(* an action is the fairness of leaving its position.                      *)
(***************************************************************************)
Leaves(p) ==
    /\ pc = p
    /\ pc' \in { "ready", "read", "dispatch", "push", "ack", "exited" } \ { p }

SpecLive ==
    /\ Spec
    /\ \A p \in { "start", "ready", "read", "dispatch", "push", "ack" } : WF_pc(Leaves(p))
(***************************************************************************)
(* The library called directly, as the unit tests of lib.rs call it: the   *)
(* protocol writes into a Vec<u8> (which never fails), should_monitor is   *)
(* applied to a name and a program list.  call records the last call: its  *)
(* arguments, its result, and for a write the output before it.            *)
(***************************************************************************)
\* At most this many buffers are written to the Vec in one test.
MaxCalls == 3

\* Names given to should_monitor: empty, without a colon, qualified.
UnitNames ==
    { << >>,
      << "t", "e", "s", "t", "_", "n", "a", "m", "e" >>,
      << "p" >>,
      << "g", ":", "p" >>,
      << "p", ":", "p" >>,
      << "g", ":", "q" >>,
      << "G", ":", "p" >> }

UnitPrograms ==
    { << >>,
      << << "g", ":", "p" >> >>,
      << << "p" >> >>,
      << << "g", ":", "q" >> >>,
      << << "p" >>, << "g", ":", "q" >> >>,
      << << "g", ":", "q" >>, << "p" >> >>,
      << << "g", ":", "q" >>, << "g", ":", "p" >> >> }

UnitInit ==
    /\ program = << >>
    /\ arg_webhook = << >>
    /\ env_webhook = << >>
    /\ feed = << >>
    /\ pos = 0
    /\ output = << >>
    /\ notified = << >>
    /\ pc = "unit"
    /\ webhook = << >>
    /\ set = EmptyMap
    /\ payload = << >>
    /\ exit_status = << >>
    /\ events = << >>
    /\ call = NoCall

\* protocol.ready(&mut output).unwrap()
UnitReady ==
    /\ pc = "unit"
    /\ Len(output) < MaxCalls
    /\ output' = Append(output, READY)
    /\ call' = [fn |-> "ready", before |-> output]
    /\ UNCHANGED << program, arg_webhook, env_webhook, feed, pos, notified, pc,
                    webhook, set, payload, exit_status, events >>

\* protocol.ok(&mut output).unwrap()
UnitOk ==
    /\ pc = "unit"
    /\ Len(output) < MaxCalls
    /\ output' = Append(output, ok)
    /\ call' = [fn |-> "ok", before |-> output]
    /\ UNCHANGED << program, arg_webhook, env_webhook, feed, pos, notified, pc,
                    webhook, set, payload, exit_status, events >>

\* protocol.fail(&mut output).unwrap()
UnitFail ==
    /\ pc = "unit"
    /\ Len(output) < MaxCalls
    /\ output' = Append(output, fail)
    /\ call' = [fn |-> "fail", before |-> output]
    /\ UNCHANGED << program, arg_webhook, env_webhook, feed, pos, notified, pc,
                    webhook, set, payload, exit_status, events >>

\* should_monitor(full_name, &program)
UnitShouldMonitor ==
    /\ pc = "unit"
    /\ \E full_name \in UnitNames, prog \in UnitPrograms :
          call' = [fn |-> "should_monitor", full_name |-> full_name,
                   program |-> prog, result |-> should_monitor(full_name, prog)]
    /\ UNCHANGED << program, arg_webhook, env_webhook, feed, pos, output, notified,
                    pc, webhook, set, payload, exit_status, events >>

\* Lines given to parse_token_set: those of the tests, and lines with the
\* other shapes a header or payload line takes.
UnitLines ==
    { << "k", "e", "y", ":", "v", "a", "l", "u", "e", "\n" >>,
      << " ", " ", "k", "e", "y", "1", ":", "v", "a", "l", "u", "e", "1", " ", "k", "e", "y", "2", ":", "v", "a", "l", "u", "e", "2", " ", "\n" >>,
      << "u", ":", "h", ":", "/", "/", "x", ":", "8" >>,
      << "a", ":", "1", " ", "b", ":", "2", " ", "a", ":", "3" >>,
      << "\t", "a", ":", "1", " ", " ", " ", "b", ":", "2", " ", "\r", "\n" >>,
      << "a", ":", "1", "\t", "b", ":", "2" >>,
      << "a", ":", " ", ":", "v" >>,
      << >>,
      << " ", "\n" >>,
      << "a", ":", "1", " ", "j", "u", "n", "k" >> }

\* parse_token_set(line)
UnitParse ==
    /\ pc = "unit"
    /\ \E line \in UnitLines :
          call' = [fn |-> "parse_token_set", line |-> line,
                   result |-> parse_token_set(line)]
    /\ UNCHANGED << program, arg_webhook, env_webhook, feed, pos, output, notified,
                    pc, webhook, set, payload, exit_status, events >>

\* TokenSets given to the round trip: plain ones, a value with colons, an
\* empty key and an empty value, values and keys with whitespace, a key with
\* a colon.
UnitTokenSets ==
    { EmptyMap,
      (<< "k", "e", "y" >> :> << "v", "a", "l", "u", "e" >>),
      (<< "a" >> :> << "1" >>) @@ (<< "b" >> :> << "2" >>),
      (<< "u" >> :> << "h", ":", "/", "/", "x", ":", "8" >>),
      (<< "k" >> :> << >>) @@ (<< >> :> << "v" >>),
      (<< "k" >> :> << "a", " ", "b" >>),
      (<< "k" >> :> << "v", "\n" >>),
      (<< "\t", "k" >> :> << "v" >>),
      (<< "a", " ", "b" >> :> << "1" >>),
      (<< "a", ":", "b" >> :> << "v" >>) }

\* The orders in which the keys of a TokenSet can be emitted.
Orders(keys) ==
    { order \in [1..Cardinality(keys) -> keys] :
        \A i, j \in 1..Cardinality(keys) : order[i] = order[j] => i = j }

\* The tokens key:value of the set, in the given order of its keys, joined by
\* single spaces.
RECURSIVE encode_as_line(_, _)
encode_as_line(tset, order) ==
    IF order = << >> THEN << >>
    ELSE LET token == order[1] \o << COLON >> \o tset[order[1]]
         IN  IF Len(order) = 1 THEN token
             ELSE token \o << SPACE >> \o encode_as_line(tset, Tail(order))

\* parse_token_set(&encode_as_line(&set))
UnitRoundTrip ==
    /\ pc = "unit"
    /\ \E tset \in UnitTokenSets :
          \E order \in Orders(DOMAIN tset) :
             call' = [fn |-> "round_trip", set |-> tset,
                      line |-> encode_as_line(tset, order),
                      result |-> parse_token_set(encode_as_line(tset, order))]
    /\ UNCHANGED << program, arg_webhook, env_webhook, feed, pos, output, notified,
                    pc, webhook, set, payload, exit_status, events >>

UnitNext ==
    \/ UnitReady
    \/ UnitOk
    \/ UnitFail
    \/ UnitShouldMonitor
    \/ UnitParse
    \/ UnitRoundTrip

SpecUnit == UnitInit /\ [][UnitNext]_vars

\* The program and the directly called library side by side.
InitAll == Init \/ UnitInit

NextAll == Next \/ UnitNext

SpecAll == InitAll /\ [][NextAll]_vars

(***************************************************************************)
(* Expected texts of the claims, written out byte for byte.                *)
(***************************************************************************)
\* the message of the end-to-end scenario
ScenarioMessage ==
    << "P", "r", "o", "c", "e", "s", "s", " ", "p", " ", "i", "n", " ", "g", "r", "o",
       "u", "p", " ", "g", " ", "e", "x", "i", "t", "e", "d", " ", "u", "n", "e", "x",
       "p", "e", "c", "t", "e", "d", "l", "y", " ", "(", "p", "i", "d", " ", "1", "2",
       "3", ")", " ", "f", "r", "o", "m", " ", "s", "t", "a", "t", "e", " ", "R", "U",
       "N", "N", "I", "N", "G" >>
\* the acknowledgement 'RESULT 2\nOK', byte for byte
RESULT_2_OK ==
    << "R", "E", "S", "U", "L", "T", " ", "2", "\n", "O", "K" >>
\* the acknowledgement 'RESULT 4\nFAIL', byte for byte
RESULT_4_FAIL ==
    << "R", "E", "S", "U", "L", "T", " ", "4", "\n", "F", "A", "I", "L" >>
\* the announcement 'READY\n', byte for byte
READY_LINE ==
    << "R", "E", "A", "D", "Y", "\n" >>

(***************************************************************************)
(* Vocabulary of the properties.                                           *)
(***************************************************************************)
Count(seq, e) == Cardinality({ i \in 1..Len(seq) : seq[i] = e })

\* Index of the last occurrence of e in seq, 0 when there is none.
LastIndexOf(seq, e) ==
    IF \E i \in 1..Len(seq) : seq[i] = e
    THEN CHOOSE i \in 1..Len(seq) : seq[i] = e /\ \A j \in (i + 1)..Len(seq) : seq[j] # e
    ELSE 0

\* Number of frames wait has returned: the current cycle, while one is open.
CycleNo == Count(events, "FRAME")

\* What the process has done since wait returned the current frame.
CycleTail == SubSeq(events, LastIndexOf(events, "FRAME") + 1, Len(events))

LastEvent == events[Len(events)]

\* Why a wait can fail, why a write can fail, why the dispatch of a frame can.
ReadCauses ==
    { "header_not_utf8", "header_token_without_colon", "header_without_len",
      "header_len_not_a_number", "short_read" }

WriteCauses == { "write_failed" }

DecodeCauses ==
    { "header_without_eventname", "payload_not_utf8", "payload_token_without_colon",
      "payload_without_expected", "expected_not_a_number", "payload_without_name",
      "payload_without_pid_or_from_state" }

\* The frame in hand is an exit event.
IsExitEvent(headers) ==
    K_eventname \in DOMAIN headers /\ headers[K_eventname] = PROCESS_STATE_EXITED

\* The payload is text whose tokens all have a colon.
Decodes(bytes) == IsUtf8(bytes) /\ ~parse_token_set(bytes).panic

\* The payload decodes and its expected parses to n.
ExpectedIs(bytes, n) ==
    /\ Decodes(bytes)
    /\ K_expected \in DOMAIN parse_token_set(bytes).map
    /\ ParseUsize(parse_token_set(bytes).map[K_expected]) = << n >>

\* The payload decodes, expected is a number and all of groupname,
\* processname, pid and from_state are present.
HasAllFields(bytes) ==
    /\ Decodes(bytes)
    /\ { K_expected, K_groupname, K_processname, K_pid, K_from_state }
          \subseteq DOMAIN parse_token_set(bytes).map
    /\ ParseUsize(parse_token_set(bytes).map[K_expected]) # << >>

\* The current cycle made no notify call and went on to acknowledge OK: the
\* first thing after the frame is the RESULT 2\nOK write (or that write
\* failing, which ends the process as a channel failure).
AckedOkQuietly ==
    /\ \A j \in 1..Len(CycleTail) : CycleTail[j] # "NOTIFY"
    /\ Len(notified) = Count(events, "NOTIFY")
    /\ IF CycleTail = << >>
       THEN pc \in { "dispatch", "ack" } /\ exit_status = << >>
       ELSE /\ CycleTail[1] \in { "RESULT", "write_failed" }
            /\ CycleTail[1] = "RESULT" => output[2 * CycleNo] = RESULT_2_OK

(***************************************************************************)
(* C1.  The writes to the output strictly alternate READY, RESULT, READY,  *)
(* RESULT, ...: every cycle writes READY once before its frame is read and *)
(* at most one RESULT after it, and the number of READYs written exceeds   *)
(* the number of RESULTs by 0 or 1.                                        *)
(***************************************************************************)
C1_ReadyResultAlternate ==
    LET steps == SelectSeq(events, LAMBDA e : e \in { "READY", "FRAME", "RESULT" })
        order == << "READY", "FRAME", "RESULT" >>
    IN  /\ \A i \in 1..Len(output) :
              IF i % 2 = 1 THEN output[i] = READY_LINE
              ELSE output[i] \in { RESULT_2_OK, RESULT_4_FAIL }
        /\ \A i \in 1..Len(steps) : steps[i] = order[((i - 1) % 3) + 1]
        /\ Len(output) = Count(events, "READY") + Count(events, "RESULT")
        /\ Count(events, "READY") \in
              { Count(events, "RESULT"), Count(events, "RESULT") + 1 }

\* Two complete cycles: READY, RESULT, READY, RESULT on the output.
C1_Witness == Len(output) = 4 /\ pc = "ready"

(***************************************************************************)
(* C2.  ok() appends exactly the bytes RESULT 2\nOK to the output and      *)
(* fail() exactly RESULT 4\nFAIL: no trailing newline, nothing else.       *)
(***************************************************************************)
C2_AckWireFormat ==
    /\ call.fn = "ok" => output = Append(call.before, RESULT_2_OK)
    /\ call.fn = "fail" => output = Append(call.before, RESULT_4_FAIL)

\* fail() called on an output that already holds an acknowledgement.
C2_Witness ==
    /\ call.fn = "fail"
    /\ call.before = << RESULT_2_OK >>
    /\ Len(output) = 2

(***************************************************************************)
(* C3.  Once a notify call was made, the cycle acknowledges OK whether the *)
(* call returns success or an error: the return is followed by the         *)
(* RESULT 2\nOK write and then by the next READY (unless the write to the  *)
(* output itself fails); the process does not exit on the notify error and *)
(* RESULT 4\nFAIL is never written.                                        *)
(***************************************************************************)
C3_NotifyErrorStillOk ==
    /\ \A i \in 1..Len(output) : output[i] # RESULT_4_FAIL
    /\ \A i \in 1..Len(events) :
          events[i] = "NOTIFY" =>
             /\ IF i = Len(events)
                THEN pc = "push" /\ exit_status = << >>
                ELSE events[i + 1] \in { "PUSH_OK", "PUSH_ERR" }
             /\ i + 1 = Len(events) => pc = "ack" /\ exit_status = << >>
             /\ i + 1 < Len(events) => events[i + 2] \in { "RESULT", "write_failed" }
             /\ (i + 1 < Len(events) /\ events[i + 2] = "RESULT") =>
                   /\ output[2 * Count(SubSeq(events, 1, i + 2), "RESULT")] = RESULT_2_OK
                   /\ IF i + 2 = Len(events)
                      THEN pc = "ready" /\ exit_status = << >>
                      ELSE events[i + 3] \in { "READY", "write_failed" }

\* A notify call returned an error; RESULT and the next READY followed.
C3_Witness ==
    \E i \in 1..Len(events) :
        /\ events[i] = "PUSH_ERR"
        /\ i + 2 <= Len(events)
        /\ events[i + 1] = "RESULT"
        /\ events[i + 2] = "READY"

(***************************************************************************)
(* C4.  A frame whose header eventname is not PROCESS_STATE_EXITED makes   *)
(* no notify call and is acknowledged with RESULT 2\nOK, whatever its      *)
(* payload bytes and whatever the allow-list.                              *)
(***************************************************************************)
C4_NonExitEventIgnored ==
    (/\ CycleNo >= 1
     /\ K_eventname \in DOMAIN set
     /\ set[K_eventname] # PROCESS_STATE_EXITED) => AckedOkQuietly

\* A PROCESS_STATE_RUNNING frame with a binary payload was acknowledged,
\* under an allow-list and with a webhook configured.
C4_Witness ==
    /\ set = FrameRunning.headers
    /\ payload = FrameRunning.body
    /\ ~IsUtf8(payload)
    /\ program # << >>
    /\ webhook # << >>
    /\ CycleTail # << >>
    /\ CycleTail[1] = "RESULT"

(***************************************************************************)
(* C5.  An exit event whose payload has expected parsing to 1 makes no     *)
(* notify call and is acknowledged with RESULT 2\nOK, for every allow-list *)
(* and whether or not a webhook is configured.                             *)
(***************************************************************************)
C5_ExpectedExitSuppressed ==
    (/\ CycleNo >= 1
     /\ IsExitEvent(set)
     /\ ExpectedIs(payload, 1)) => AckedOkQuietly

\* An expected exit of g:p was acknowledged while g:p is on the allow-list
\* and a webhook is configured.
C5_Witness ==
    /\ IsExitEvent(set)
    /\ payload = FrameExpected.body
    /\ program = << << "g", ":", "p" >> >>
    /\ webhook # << >>
    /\ CycleTail # << >>
    /\ CycleTail[1] = "RESULT"

(***************************************************************************)
(* C6.  End-to-end scenario.  As stated: the header line                   *)
(* 'len:63 eventname:x\n' followed by the bytes of 'eventname:PROCESS_     *)
(* STATE_EXITED groupname:g processname:p pid:123 expected:0 from_state:   *)
(* RUNNING', allow-list ["g:p"], a webhook configured: the notifier        *)
(* receives exactly the message and the output READY\n then RESULT 2\nOK.  *)
(* The code looks for eventname in the header, and the text is 94 bytes.   *)
(***************************************************************************)
C6_Original ==
    (/\ stdin = FrameScenario_line \o FrameScenario_body
     /\ program = << << "g", ":", "p" >> >>
     /\ webhook # << >>
     /\ Count(events, "RESULT") >= 1) =>
        /\ notified = << ScenarioMessage >>
        /\ SubSeq(output, 1, 2) = << READY_LINE, RESULT_2_OK >>

(***************************************************************************)
(* C6, amended.  The header line 'len:63 eventname:PROCESS_STATE_EXITED\n' *)
(* followed by the 63 bytes 'groupname:g processname:p pid:123 expected:0  *)
(* from_state:RUNNING', allow-list ["g:p"], a webhook configured: the      *)
(* notifier receives exactly 'Process p in group g exited unexpectedly     *)
(* (pid 123) from state RUNNING' and the output READY\n then RESULT 2\nOK. *)
(***************************************************************************)
C6_EndToEnd ==
    (/\ stdin = FrameExitGP_line \o FrameExitGP_body
     /\ Len(FrameExitGP_body) = 63
     /\ program = << << "g", ":", "p" >> >>
     /\ webhook # << >>
     /\ Count(events, "RESULT") >= 1) =>
        /\ notified = << ScenarioMessage >>
        /\ SubSeq(output, 1, 2) = << READY_LINE, RESULT_2_OK >>

\* The amended scenario has run through its acknowledgement.
C6_Witness ==
    /\ stdin = FrameExitGP_line \o FrameExitGP_body
    /\ program = << << "g", ":", "p" >> >>
    /\ webhook # << >>
    /\ output = << READY_LINE, RESULT_2_OK >>
    /\ notified = << ScenarioMessage >>

(***************************************************************************)
(* C7.  Channel-fatal errors terminate the process.  When, READY written,  *)
(* the header line has a token without a colon, lacks len, has a len that  *)
(* is not a number, the stream is closed before a header line arrives, or  *)
(* fewer than len payload bytes are left before the end of the input, the  *)
(* next step exits with a non-zero status without writing a RESULT and     *)
(* without a notify call; and an exited process takes no further step (no  *)
(* READY, no retry).                                                       *)
(***************************************************************************)
C7_HeaderLine(input, p) == ReadLine(input, p)

C7_StreamClosed(input, p) == p = Len(input)

C7_TokenWithoutColon(input, p) ==
    \E i \in 1..Len(Tokens(C7_HeaderLine(input, p))) :
        ~Contains(Tokens(C7_HeaderLine(input, p))[i], COLON)

C7_LacksLen(input, p) ==
    /\ ~C7_TokenWithoutColon(input, p)
    /\ \A i \in 1..Len(Tokens(C7_HeaderLine(input, p))) :
          SplitOnce(Tokens(C7_HeaderLine(input, p))[i], COLON)[1][1] # K_len

C7_LenNotANumber(input, p) ==
    /\ ~C7_TokenWithoutColon(input, p)
    /\ ~C7_LacksLen(input, p)
    /\ ParseUsize(parse_token_set(C7_HeaderLine(input, p)).map[K_len]) = << >>

C7_ShortRead(input, p) ==
    /\ ~C7_TokenWithoutColon(input, p)
    /\ ~C7_LacksLen(input, p)
    /\ ~C7_LenNotANumber(input, p)
    /\ Len(input) - (p + Len(C7_HeaderLine(input, p)))
          < ParseUsize(parse_token_set(C7_HeaderLine(input, p)).map[K_len])[1]

\* The input from position p on is one of the channel-fatal cases.
C7_ChannelFatalInput(input, p) ==
    \/ C7_StreamClosed(input, p)
    \/ C7_TokenWithoutColon(input, p)
    \/ C7_LacksLen(input, p)
    \/ C7_LenNotANumber(input, p)
    \/ C7_ShortRead(input, p)

\* stdin' is the input the read of this step sees: what was left unread
\* and what arrived while the process was blocked, up to the end of stream.
C7_ChannelFatalTerminates ==
    [][ /\ (pc = "read" /\ C7_ChannelFatalInput(stdin', pos)) =>
             /\ pc' = "exited"
             /\ exit_status' # << >>
             /\ exit_status'[1] # 0
             /\ output' = output
             /\ notified' = notified
             /\ events'[Len(events')] \in ReadCauses
        /\ pc # "exited" ]_vars

\* After one complete cycle the next frame came short; the process exited
\* with the READY of that cycle as its last write.
C7_Witness ==
    /\ pc = "exited"
    /\ LastEvent = "short_read"
    /\ CycleNo = 1
    /\ exit_status = << 1 >>
    /\ output[Len(output)] = READY_LINE
    /\ Len(output) = 3

(***************************************************************************)
(* C8.  As stated: whenever run stops, the cause is a channel-level        *)
(* failure (a header that is malformed, lacks len or has a len that is not *)
(* a number, a short read, a closed stream, a failed write or flush); no   *)
(* frame that wait returned makes the loop terminate.                      *)
(***************************************************************************)
C8_Original ==
    pc = "exited" =>
        /\ LastEvent \in ReadCauses \cup WriteCauses
        /\ LastEvent \in ReadCauses => events[Len(events) - 1] = "READY"

\* The frame carries everything the dispatch may look up: an eventname in
\* the header and, for an exit event, a payload that decodes, with a numeric
\* expected and groupname, processname, pid and from_state.
C8_FullyDecodable(headers, bytes) ==
    /\ K_eventname \in DOMAIN headers
    /\ IsExitEvent(headers) => HasAllFields(bytes)

(***************************************************************************)
(* C8, amended.  Whenever run stops, the cause is a channel-level failure  *)
(* (as above) or a decode failure of the frame just read: a header without *)
(* eventname or, for an exit event, a payload that is not UTF-8, has a     *)
(* token without a colon, or lacks expected (or has a non-numeric one),    *)
(* groupname, processname, pid or from_state.  No fully decodable frame    *)
(* makes the loop terminate, and neither does a notification failure or a  *)
(* missing webhook.                                                        *)
(***************************************************************************)
C8_TerminatesOnlyOnChannelOrDecodeFailure ==
    pc = "exited" =>
        \/ LastEvent \in WriteCauses
        \/ /\ LastEvent \in ReadCauses
           /\ events[Len(events) - 1] = "READY"
        \/ /\ LastEvent \in DecodeCauses
           /\ events[Len(events) - 1] = "FRAME"
           /\ ~C8_FullyDecodable(set, payload)

\* The process stopped on a frame that wait had returned whole: an
\* unexpected exit of a monitored process without pid and from_state.
C8_Witness ==
    /\ pc = "exited"
    /\ Len(events) >= 2
    /\ events[Len(events) - 1] = "FRAME"
    /\ set = FrameNoPid.headers
    /\ payload = FrameNoPid.body
    /\ LastEvent = "payload_without_pid_or_from_state"

(***************************************************************************)
(* C9.  wait consumes exactly the header line and len bytes and returns    *)
(* those bytes verbatim: over well-formed frames, the k-th wait returns    *)
(* the k-th frame's headers and payload and leaves the input position at   *)
(* the end of the k-th frame.                                              *)
(***************************************************************************)
C9_WaitReturnsKthFrame ==
    (/\ pc = "dispatch"
     /\ CycleNo <= Len(feed)
     /\ \A i \in 1..CycleNo : Catalog[feed[i]].wf) =>
        /\ set = Catalog[feed[CycleNo]].headers
        /\ payload = Catalog[feed[CycleNo]].body
        /\ pos = Len(Bytes(SubSeq(feed, 1, CycleNo)))

\* The second wait returned a payload with an embedded newline, after a
\* first frame whose payload was empty.
C9_Witness ==
    /\ pc = "dispatch"
    /\ CycleNo = 2
    /\ Catalog[feed[1]].wf /\ Catalog[feed[1]].body = << >>
    /\ Catalog[feed[2]].wf
    /\ \E i \in 1..Len(payload) : payload[i] = NEWLINE
    /\ pos = Len(stdin)

(***************************************************************************)
(* C10.  With an empty allow-list should_monitor is true of every name,    *)
(* also of an empty one and of one without a colon; so with no program     *)
(* given every unexpected exit event (expected not 1, all fields present)  *)
(* reaches the notification step: the push, or the warning that no webhook *)
(* is configured.                                                          *)
(***************************************************************************)
C10_EmptyProgramMonitorsAll ==
    /\ (call.fn = "should_monitor" /\ call.program = << >>) => call.result = TRUE
    /\ (/\ pc \notin { "unit", "dispatch" }
        /\ program = << >>
        /\ CycleNo >= 1
        /\ IsExitEvent(set)
        /\ HasAllFields(payload)
        /\ ~ExpectedIs(payload, 1)) =>
           /\ CycleTail # << >>
           /\ CycleTail[1] \in { "NOTIFY", "WARN" }
           /\ CycleTail[1] = "NOTIFY" =>
                 notified[Len(notified)] = format_msg(parse_token_set(payload).map)

\* should_monitor called with a name without a colon and an empty list.
C10_Witness ==
    /\ call.fn = "should_monitor"
    /\ call.program = << >>
    /\ ~Contains(call.full_name, COLON)
    /\ call.full_name # << >>
    /\ call.result = TRUE

\* In the loop: an unexpected exit of p:p pushed under an empty allow-list.
C10_WitnessLoop ==
    /\ program = << >>
    /\ payload = FrameExitPP.body
    /\ IsExitEvent(set)
    /\ CycleTail # << >>
    /\ CycleTail[1] = "NOTIFY"

(***************************************************************************)
(* C11.  For a non-empty allow-list should_monitor is true exactly when    *)
(* some entry matches: an entry with a colon matches the name equal to it  *)
(* (case-sensitively), a bare entry N matches the name N:N and no other.   *)
(* So g:p matches [g:p] and p:p matches [p], g:p matches neither [g:q] nor *)
(* [p], and the order of the entries does not matter.                      *)
(***************************************************************************)
C11_EntryMatches(entry, full_name) ==
    IF \E i \in 1..Len(entry) : entry[i] = ":"
    THEN entry = full_name
    ELSE /\ Len(full_name) = 2 * Len(entry) + 1
         /\ \A i \in 1..Len(entry) :
               full_name[i] = entry[i] /\ full_name[Len(entry) + 1 + i] = entry[i]
         /\ full_name[Len(entry) + 1] = ":"

\* Some entry of the list matches; the list is read as a set.
C11_SomeEntryMatches(full_name, list) ==
    \E entry \in { list[i] : i \in 1..Len(list) } : C11_EntryMatches(entry, full_name)

C11_Called(full_name, list) ==
    /\ call.fn = "should_monitor"
    /\ call.full_name = full_name
    /\ call.program = list

\* C11: on a non-empty list the result is that of the entry-by-entry rule,
\* and the named cases come out as stated.
C11_ShouldMonitorMatches ==
    /\ (call.fn = "should_monitor" /\ call.program # << >>) =>
          call.result = C11_SomeEntryMatches(call.full_name, call.program)
    /\ C11_Called(<< "g", ":", "p" >>, << << "g", ":", "p" >> >>) => call.result = TRUE
    /\ C11_Called(<< "p", ":", "p" >>, << << "p" >> >>) => call.result = TRUE
    /\ C11_Called(<< "g", ":", "p" >>, << << "g", ":", "q" >> >>) => call.result = FALSE
    /\ C11_Called(<< "g", ":", "p" >>, << << "p" >> >>) => call.result = FALSE
    /\ C11_Called(<< "G", ":", "p" >>, << << "g", ":", "p" >> >>) => call.result = FALSE

\* p:p matched by the bare entry in second place.
C11_Witness ==
    /\ C11_Called(<< "p", ":", "p" >>, << << "g", ":", "q" >>, << "p" >> >>)
    /\ call.result = TRUE

(***************************************************************************)
(* C12.  parse_token_set of a line whose non-empty space-separated         *)
(* segments all contain a colon gives one entry per segment: the key is    *)
(* the text before the segment's first colon, the value everything after   *)
(* it, later colons included.  Whitespace at the ends of the line and runs *)
(* of spaces contribute nothing, and of a repeated key the last segment    *)
(* wins.                                                                   *)
(***************************************************************************)
C12_White == { " ", "\n", "\t", "\r" }

\* The segments of a line, as pairs of first and last index: the maximal runs
\* without a space between the first and the last non-whitespace character.
C12_Segments(line) ==
    LET inner == { i \in 1..Len(line) : line[i] \notin C12_White }
        lo == CHOOSE i \in inner : \A j \in 1..(i - 1) : line[j] \in C12_White
        hi == CHOOSE i \in inner : \A j \in (i + 1)..Len(line) : line[j] \in C12_White
        starts == { i \in lo..hi : line[i] # " " /\ (i = lo \/ line[i - 1] = " ") }
        ends == { i \in lo..hi : line[i] # " " /\ (i = hi \/ line[i + 1] = " ") }
        end(a) == CHOOSE b \in ends : a <= b /\ \A c \in ends : a <= c => b <= c
    IN  IF inner = {} THEN {} ELSE { << a, end(a) >> : a \in starts }

\* Index of the first colon of a segment, 0 when it has none.
C12_FirstColon(line, seg) ==
    LET colons == { i \in seg[1]..seg[2] : line[i] = ":" }
    IN  IF colons = {} THEN 0 ELSE CHOOSE i \in colons : \A j \in colons : i <= j

C12_Key(line, seg) == SubSeq(line, seg[1], C12_FirstColon(line, seg) - 1)

C12_Value(line, seg) == SubSeq(line, C12_FirstColon(line, seg) + 1, seg[2])

C12_AllSegmentsHaveColon(line) ==
    \A seg \in C12_Segments(line) : C12_FirstColon(line, seg) # 0

\* The map the claim describes.
C12_Described(line) ==
    LET segs == C12_Segments(line)
        keys == { C12_Key(line, seg) : seg \in segs }
        last(k) == CHOOSE seg \in segs :
                      /\ C12_Key(line, seg) = k
                      /\ \A other \in segs :
                            C12_Key(line, other) = k => other[1] <= seg[1]
    IN  [k \in keys |-> C12_Value(line, last(k))]

C12_Parsed(line) == call.fn = "parse_token_set" /\ call.line = line

\* C12: a line whose segments all have a colon decodes, without a panic, to
\* the map described; the lines of the tests give the maps of the tests.
C12_ParseTokenSet ==
    /\ (call.fn = "parse_token_set" /\ C12_AllSegmentsHaveColon(call.line)) =>
          /\ ~call.result.panic
          /\ call.result.map = C12_Described(call.line)
    /\ C12_Parsed(<< "k", "e", "y", ":", "v", "a", "l", "u", "e", "\n" >>) =>
          call.result.map = (<< "k", "e", "y" >> :> << "v", "a", "l", "u", "e" >>)
    /\ C12_Parsed(<< " ", " ", "k", "e", "y", "1", ":", "v", "a", "l", "u", "e", "1", " ", "k", "e", "y", "2", ":", "v", "a", "l", "u", "e", "2", " ", "\n" >>) =>
          call.result.map = (<< "k", "e", "y", "1" >> :> << "v", "a", "l", "u", "e", "1" >>) @@ (<< "k", "e", "y", "2" >> :> << "v", "a", "l", "u", "e", "2" >>)
    /\ C12_Parsed(<< "u", ":", "h", ":", "/", "/", "x", ":", "8" >>) =>
          call.result.map = (<< "u" >> :> << "h", ":", "/", "/", "x", ":", "8" >>)
    /\ C12_Parsed(<< "a", ":", "1", " ", "b", ":", "2", " ", "a", ":", "3" >>) =>
          call.result.map = (<< "a" >> :> << "3" >>) @@ (<< "b" >> :> << "2" >>)
    /\ C12_Parsed(<< "\t", "a", ":", "1", " ", " ", " ", "b", ":", "2", " ", "\r", "\n" >>) =>
          call.result.map = (<< "a" >> :> << "1" >>) @@ (<< "b" >> :> << "2" >>)

\* A repeated key, decoded: the later value is kept.
C12_Witness ==
    /\ C12_Parsed(<< "a", ":", "1", " ", "b", ":", "2", " ", "a", ":", "3" >>)
    /\ C12_AllSegmentsHaveColon(call.line)
    /\ DOMAIN call.result.map = { << "a" >>, << "b" >> }
    /\ call.result.map[<< "a" >>] = << "3" >>

(***************************************************************************)
(* C13.  Codec round trip: a TokenSet whose keys and values contain no     *)
(* whitespace and whose keys contain no colon is reconstructed by          *)
(* parse_token_set from the line that joins its key:value tokens with      *)
(* single spaces, in whatever order the tokens are emitted.                *)
(***************************************************************************)
C13_NoneOf(str, chars) == \A i \in 1..Len(str) : str[i] \notin chars

\* The restriction the round trip is stated with: well-formed pairs (the key
\* is what precedes the colon) with no embedded space in a key.
C13_KeysWithoutSpace(tset) ==
    \A k \in DOMAIN tset : C13_NoneOf(k, { " ", ":" })

C13_WithoutWhitespace(tset) ==
    \A k \in DOMAIN tset :
        /\ C13_NoneOf(k, { " ", "\n", "\t", "\r", ":" })
        /\ C13_NoneOf(tset[k], { " ", "\n", "\t", "\r" })

C13_Reconstructed == ~call.result.panic /\ call.result.map = call.set

\* The round trip as it is stated, with keys restricted only.
C13_Original ==
    (call.fn = "round_trip" /\ C13_KeysWithoutSpace(call.set)) => C13_Reconstructed

\* C13, amended: with whitespace kept out of keys and values and colons out
\* of keys, the set is reconstructed from every one of its encodings.
C13_RoundTrip ==
    (call.fn = "round_trip" /\ C13_WithoutWhitespace(call.set)) => C13_Reconstructed

\* Two pairs emitted b first, and reconstructed.
C13_Witness ==
    /\ call.fn = "round_trip"
    /\ C13_WithoutWhitespace(call.set)
    /\ call.line = << "b", ":", "2", " ", "a", ":", "1" >>
    /\ call.result.map = call.set

\* The fields of a payload, read token by token.
Fields(bytes) == C12_Described(bytes)

\* The fields are those of an unexpected exit, all present, of a process the
\* allow-list lets through: the list is empty or one of its entries matches
\* groupname:processname.
MonitoredUnexpected(pset, list) ==
    /\ { K_expected, K_groupname, K_processname, K_pid, K_from_state } \subseteq DOMAIN pset
    /\ ParseUsize(pset[K_expected]) \notin { << >>, << 1 >> }
    /\ \/ list = << >>
       \/ C11_SomeEntryMatches(pset[K_groupname] \o << ":" >> \o pset[K_processname], list)

\* The frame in hand is such an exit event.
UnexpectedMonitoredExit ==
    /\ CycleNo >= 1
    /\ IsExitEvent(set)
    /\ \A i \in 1..Len(payload) : payload[i] # "0xFF"
    /\ C12_AllSegmentsHaveColon(payload)
    /\ MonitoredUnexpected(Fields(payload), program)

(***************************************************************************)
(* C14.  With no destination configured (no --webhook argument, and        *)
(* CRASHFEISHU_WEBHOOK unset or empty) no notify call is ever made; an     *)
(* unexpected exit that matches the allow-list is only warned about, then  *)
(* acknowledged with RESULT 2\nOK, and the loop goes on to the next READY  *)
(* (unless the write to the output itself fails).                          *)
(***************************************************************************)
C14_NoDestination ==
    /\ pc # "unit"
    /\ arg_webhook = << >>
    /\ env_webhook = << >> \/ env_webhook = << << >> >>

\* C14: no destination, no notify call; the monitored unexpected exit is
\* warned about, acknowledged OK, and followed by the next READY.
C14_NoDestinationNoNotify ==
    C14_NoDestination =>
        /\ notified = << >>
        /\ \A i \in 1..Len(events) : events[i] \notin { "NOTIFY", "PUSH_OK", "PUSH_ERR" }
        /\ (pc # "dispatch" /\ UnexpectedMonitoredExit) =>
              /\ CycleTail # << >>
              /\ CycleTail[1] = "WARN"
              /\ Len(CycleTail) = 1 => pc = "ack" /\ exit_status = << >>
              /\ Len(CycleTail) >= 2 =>
                    /\ CycleTail[2] \in { "RESULT", "write_failed" }
                    /\ CycleTail[2] = "RESULT" => output[2 * CycleNo] = RESULT_2_OK
              /\ Len(CycleTail) = 2 /\ CycleTail[2] = "RESULT" =>
                    pc = "ready" /\ exit_status = << >>
              /\ Len(CycleTail) >= 3 => CycleTail[3] \in { "READY", "write_failed" }

\* The variable is set but empty; an unexpected exit of g:p was warned
\* about, acknowledged, and the next READY written.
C14_Witness ==
    /\ C14_NoDestination
    /\ env_webhook = << << >> >>
    /\ UnexpectedMonitoredExit
    /\ payload = FrameExitGP.body
    /\ CycleTail = << "WARN", "RESULT", "READY" >>
    /\ output[2 * CycleNo] = RESULT_2_OK

(***************************************************************************)
(* C15.  An exit-event frame whose payload is not valid UTF-8, has a token *)
(* without a colon, has an expected that is not a number, or lacks a       *)
(* required key at the point where it is looked up, ends the whole         *)
(* process: nothing is written after that frame's READY (no RESULT 2\nOK,  *)
(* no RESULT 4\nFAIL), no notify call is made for it, and no later frame   *)
(* is read.                                                                *)
(***************************************************************************)
\* A required key is missing from the decoded payload where the dispatch
\* looks it up: expected always; the names once expected is not 1; pid and
\* from_state once the name has passed the allow-list as well.
C15_LacksKeyWhenAccessed(pset, list) ==
    \/ K_expected \notin DOMAIN pset
    \/ /\ K_expected \in DOMAIN pset
       /\ ParseUsize(pset[K_expected]) \notin { << >>, << 1 >> }
       /\ \/ ~({ K_groupname, K_processname } \subseteq DOMAIN pset)
          \/ /\ { K_groupname, K_processname } \subseteq DOMAIN pset
             /\ list = << >> \/ C11_SomeEntryMatches(
                                   pset[K_groupname] \o << ":" >> \o pset[K_processname], list)
             /\ ~({ K_pid, K_from_state } \subseteq DOMAIN pset)

C15_DecodeFatal(bytes, list) ==
    \/ \E i \in 1..Len(bytes) : bytes[i] = "0xFF"
    \/ ~C12_AllSegmentsHaveColon(bytes)
    \/ LET pset == C12_Described(bytes)
       IN  \/ K_expected \in DOMAIN pset /\ ParseUsize(pset[K_expected]) = << >>
           \/ C15_LacksKeyWhenAccessed(pset, list)

\* C15: once the dispatch of such a frame is over the process has exited,
\* with nothing written after the READY of that frame and no notify call.
C15_DecodeFatalTerminates ==
    (/\ CycleNo >= 1
     /\ IsExitEvent(set)
     /\ C15_DecodeFatal(payload, program)
     /\ pc # "dispatch") =>
        /\ pc = "exited"
        /\ exit_status \in { << 1 >>, << 101 >> }
        /\ Len(CycleTail) = 1
        /\ CycleTail[1] \in DecodeCauses
        /\ Count(events, "RESULT") = CycleNo - 1
        /\ Len(output) = 2 * CycleNo - 1
        /\ output[Len(output)] = READY_LINE
        /\ Len(notified) = Count(events, "NOTIFY")
        /\ pos = Len(Bytes(SubSeq(feed, 1, CycleNo)))

\* The second frame is an exit event with an invalid byte in its payload:
\* the process is gone, the last write is that frame's READY.
C15_Witness ==
    /\ CycleNo = 2
    /\ IsExitEvent(set)
    /\ payload = FrameBadUtf8.body
    /\ C15_DecodeFatal(payload, program)
    /\ pc = "exited"
    /\ Len(output) = 3

\* The alert text for a payload with all its fields.
AlertText(bytes) ==
    LET pset == Fields(bytes)
    IN  << "P", "r", "o", "c", "e", "s", "s", " " >> \o pset[K_processname]
          \o << " ", "i", "n", " ", "g", "r", "o", "u", "p", " " >> \o pset[K_groupname]
          \o << " ", "e", "x", "i", "t", "e", "d", " ", "u", "n", "e", "x", "p", "e", "c",
                "t", "e", "d", "l", "y", " ", "(", "p", "i", "d", " " >> \o pset[K_pid]
          \o << ")", " ", "f", "r", "o", "m", " ", "s", "t", "a", "t", "e", " " >>
          \o pset[K_from_state]

\* The payload itself carries six fields: eventname as well as expected,
\* groupname, processname, pid and from_state.
C16_PayloadHasSixFields(bytes) == K_eventname \in DOMAIN Fields(bytes)

\* The current cycle has made a notify call.
C16_Notified == \E j \in 1..Len(CycleTail) : CycleTail[j] = "NOTIFY"

\* The one notify call of the current cycle comes first after the frame,
\* carries the alert text of the frame, and the RESULT comes after its return.
C16_NotifiedOnce ==
    /\ CycleTail # << >>
    /\ CycleTail[1] = "NOTIFY"
    /\ Count(CycleTail, "NOTIFY") = 1
    /\ Len(notified) = Count(events, "NOTIFY")
    /\ notified[Len(notified)] = AlertText(payload)
    /\ Len(CycleTail) = 1 => pc = "push" /\ Len(output) = 2 * CycleNo - 1
    /\ Len(CycleTail) >= 2 => CycleTail[2] \in { "PUSH_OK", "PUSH_ERR" }
    /\ Len(CycleTail) >= 3 => CycleTail[3] \in { "RESULT", "write_failed" }

\* The statement with the payload required to hold all six fields: a frame
\* outside that description makes no notify call.
C16_Original ==
    (pc \notin { "unit", "start" } /\ webhook # << >>) =>
        /\ (pc # "dispatch" /\ UnexpectedMonitoredExit /\ C16_PayloadHasSixFields(payload))
              => C16_NotifiedOnce
        /\ C16_Notified => UnexpectedMonitoredExit /\ C16_PayloadHasSixFields(payload)

(***************************************************************************)
(* C16, amended.  With a destination configured, a frame whose header      *)
(* eventname is PROCESS_STATE_EXITED, whose payload has expected,          *)
(* groupname, processname, pid and from_state, whose expected does not     *)
(* parse to 1 and whose groupname:processname passes the allow-list causes *)
(* exactly one notify call in its cycle, with the alert text built from    *)
(* the frame's field values, after the frame is read and before the        *)
(* cycle's RESULT is written; no other frame causes a notify call.         *)
(***************************************************************************)
C16_NotifyExactlyTheMonitoredExits ==
    (pc \notin { "unit", "start" } /\ webhook # << >>) =>
        /\ (pc # "dispatch" /\ UnexpectedMonitoredExit) => C16_NotifiedOnce
        /\ C16_Notified => UnexpectedMonitoredExit

\* Second cycle: p:p exited from BACKOFF, allowed by the bare entry p; the
\* call was made with the text of that frame and the RESULT written after.
C16_Witness ==
    /\ webhook # << >>
    /\ CycleNo = 2
    /\ program = << << "p" >>, << "g", ":", "q" >> >>
    /\ payload = FrameExitPP.body
    /\ UnexpectedMonitoredExit
    /\ Len(CycleTail) >= 3
    /\ CycleTail[1] = "NOTIFY"
    /\ CycleTail[3] = "RESULT"
    /\ notified[Len(notified)] =
          << "P", "r", "o", "c", "e", "s", "s", " ", "p", " ", "i", "n", " ", "g", "r",
             "o", "u", "p", " ", "p", " ", "e", "x", "i", "t", "e", "d", " ", "u", "n",
             "e", "x", "p", "e", "c", "t", "e", "d", "l", "y", " ", "(", "p", "i", "d",
             " ", "7", ")", " ", "f", "r", "o", "m", " ", "s", "t", "a", "t", "e", " ",
             "B", "A", "C", "K", "O", "F", "F" >>

\* READY has been written k times and the process waits for the k-th frame.
C17_WaitsForFrame(k) == pc = "read" /\ Count(events, "READY") = k

\* The k-th frame has arrived well-formed: wait has returned it, and it
\* carries everything the dispatch looks up.
C17_FrameInHand(k) ==
    /\ pc = "dispatch"
    /\ CycleNo = k
    /\ C8_FullyDecodable(set, payload)

\* The k-th frame has its RESULT and the next READY is written.
C17_CycleDone(k) ==
    /\ Count(events, "RESULT") >= k
    /\ Count(events, "READY") >= k + 1
    /\ output[2 * k] = RESULT_2_OK
    /\ output[2 * k + 1] = READY_LINE

C17_WriteFailed == pc = "exited" /\ LastEvent \in WriteCauses

\* The stream was closed or the frame could not be read.
C17_NoFrame(k) ==
    /\ pc = "exited"
    /\ LastEvent \in ReadCauses
    /\ Count(events, "READY") = k
    /\ CycleNo = k - 1

(***************************************************************************)
(* C17.  Liveness of the cycle.  After every READY the read returns (with  *)
(* the frame, or with the failure that ends the process), and once a       *)
(* well-formed frame is in hand its RESULT and then the next READY are     *)
(* eventually written, provided the writes succeed and the notify call     *)
(* returns.  Conversely, a step taken while a notify call is pending       *)
(* writes nothing and reads nothing: it can only be the call's return.     *)
(***************************************************************************)
C17_CycleLiveness ==
    /\ \A k \in 1..MaxFrames :
          C17_WaitsForFrame(k) ~> (CycleNo >= k \/ C17_NoFrame(k))
    /\ \A k \in 1..MaxFrames :
          C17_FrameInHand(k) ~> (C17_CycleDone(k) \/ C17_WriteFailed)
    /\ [][pc = "push" =>
            /\ output' = output
            /\ pos' = pos
            /\ feed' = feed
            /\ notified' = notified
            /\ pc' = "ack"
            /\ Len(output) = 2 * CycleNo - 1
            /\ \E result \in { "PUSH_OK", "PUSH_ERR" } : events' = Append(events, result)]_vars

\* Two frames, each with a notify call that returned, and the third READY.
C17_Witness ==
    /\ CycleNo = 2
    /\ Count(events, "NOTIFY") = 2
    /\ Count(events, "PUSH_ERR") >= 1
    /\ C17_CycleDone(2)

(***************************************************************************)
(* C18.  run never acknowledges with FAIL: whatever the frames, the        *)
(* allow-list, the destination and the outcomes of the notify calls, every *)
(* RESULT it writes is RESULT 2\nOK, and a cycle either ends with that     *)
(* RESULT or the process terminates without writing a RESULT for it.       *)
(***************************************************************************)
C18_NeverFail ==
    pc # "unit" =>
        /\ \A i \in 1..Len(output) :
              /\ output[i] # RESULT_4_FAIL
              /\ i % 2 = 0 => output[i] = RESULT_2_OK
              /\ i % 2 = 1 => output[i] = READY_LINE
        /\ Count(events, "RESULT") = Len(output) \div 2
        /\ \A k \in 1..CycleNo :
              \/ Len(output) >= 2 * k /\ output[2 * k] = RESULT_2_OK
              \/ /\ k = CycleNo
                 /\ Len(output) = 2 * k - 1
                 /\ \/ pc \in { "dispatch", "push", "ack" } /\ exit_status = << >>
                    \/ pc = "exited" /\ LastEvent \in DecodeCauses \cup WriteCauses

\* A notify call failed in the first cycle and the cycle was acknowledged
\* OK; the second frame ended the process with no RESULT.
C18_Witness ==
    /\ CycleNo = 2
    /\ Len(output) = 3
    /\ output[2] = RESULT_2_OK
    /\ Count(events, "PUSH_ERR") = 1
    /\ pc = "exited"
    /\ LastEvent \in DecodeCauses

\* The name of the payload's process is on a non-empty list / is let through.
C19_Listed(pset, list) ==
    C11_SomeEntryMatches(pset[K_groupname] \o << ":" >> \o pset[K_processname], list)

C19_HasNames(pset) == { K_groupname, K_processname } \subseteq DOMAIN pset

C19_HasPidAndState(pset) == { K_pid, K_from_state } \subseteq DOMAIN pset

\* The current cycle ended the process with this cause, nothing written.
C19_TerminatedWith(cause) ==
    /\ pc = "exited"
    /\ CycleTail = << cause >>
    /\ Len(output) = 2 * CycleNo - 1
    /\ Len(notified) = Count(events, "NOTIFY")

(***************************************************************************)
(* C19.  The payload keys are looked up lazily, expected first, then       *)
(* groupname and processname, then pid and from_state.  An exit event      *)
(* without pid or from_state is acknowledged with RESULT 2\nOK, with no    *)
(* notify call, when its expected parses to 1 or its name is not matched   *)
(* by a non-empty allow-list; it ends the process only when it has passed  *)
(* both filters.  An exit event without groupname or processname is        *)
(* acknowledged the same way when its expected parses to 1, and ends the   *)
(* process when it does not.                                               *)
(***************************************************************************)
\* C19: a missing key matters only where the dispatch gets to look it up.
C19_LazyKeyChecks ==
    (/\ CycleNo >= 1
     /\ IsExitEvent(set)
     /\ \A i \in 1..Len(payload) : payload[i] # "0xFF"
     /\ C12_AllSegmentsHaveColon(payload)) =>
        LET pset == Fields(payload)
            expected == ParseUsize(pset[K_expected])[1]
        IN  (K_expected \in DOMAIN pset /\ ParseUsize(pset[K_expected]) # << >>) =>
            /\ (~C19_HasPidAndState(pset) /\ expected = 1) => AckedOkQuietly
            /\ (/\ ~C19_HasPidAndState(pset)
                /\ C19_HasNames(pset)
                /\ program # << >>
                /\ ~C19_Listed(pset, program)) => AckedOkQuietly
            /\ (/\ ~C19_HasPidAndState(pset)
                /\ C19_HasNames(pset)
                /\ expected # 1
                /\ program = << >> \/ C19_Listed(pset, program)
                /\ pc # "dispatch") =>
                   C19_TerminatedWith("payload_without_pid_or_from_state")
            /\ (~C19_HasNames(pset) /\ expected = 1) => AckedOkQuietly
            /\ (~C19_HasNames(pset) /\ expected # 1 /\ pc # "dispatch") =>
                   C19_TerminatedWith("payload_without_name")

\* g:p exited unexpectedly, its payload without pid and from_state, and the
\* list [p, g:q] does not match it: acknowledged, and the next READY written.
C19_Witness ==
    /\ CycleNo >= 1
    /\ IsExitEvent(set)
    /\ payload = FrameNoPid.body
    /\ program = << << "p" >>, << "g", ":", "q" >> >>
    /\ CycleTail = << "RESULT", "READY" >>
    /\ output[2 * CycleNo] = RESULT_2_OK
    /\ exit_status = << >>

\* The same payload on an empty list, and a payload with nothing but
\* expected:1: the first ends the process, the second is acknowledged.
C19_WitnessTerminated ==
    /\ payload = FrameNoPid.body
    /\ IsExitEvent(set)
    /\ program = << >>
    /\ C19_TerminatedWith("payload_without_pid_or_from_state")

C19_WitnessOnlyExpected ==
    /\ payload = FrameOnlyExpected.body
    /\ IsExitEvent(set)
    /\ program = << >>
    /\ CycleTail = << "RESULT", "READY" >>

====
